---------------------------- MODULE Spec2Model ----------------------------
(***************************************************************************)
(* The library gRPC server of grpc_demo: the users and books tables, the   *)
(* JWT minting and validation of server/auth.go, the unary and stream      *)
(* authentication interceptors, and the handlers of server/server.go, one  *)
(* action per database round trip so that concurrent calls interleave as   *)
(* they do on the connection pool.                                         *)
(***************************************************************************)
EXTENDS Integers, Sequences, FiniteSets, TLC

(***************************************************************************)
(* Bounds of the model.                                                    *)
(***************************************************************************)
\* number of calls (unary or streamed) a behaviour holds; they may all overlap
NumCalls == 2
\* the clock runs over 0..MaxTime
MaxTime == 1
\* messages one BatchAddBooks stream carries at most
MaxBatch == 2

(***************************************************************************)
(* Program constants.                                                      *)
(***************************************************************************)
\* auth.go:48, time.Now().Add(24 * time.Hour), in hours
TokenTTL == 24
\* server.go:132, the default page size
DefaultPageSize == 10
\* auth.go:102, len(authHeader[0]) < 7
BearerLen == 7

Calls == 1..NumCalls
Times == 0..MaxTime

Usernames == {"alice", "bob"}
Passwords == {"secret1", "secret2"}
\* users.id is SERIAL: 1, 2, ...; a row per username at most
UserIds == 1..Cardinality(Usernames)

Titles == {"t1", "t2"}
Authors == {"a1", "a2"}

\* library.proto: message Book, message User / UserCredentials, BookRequest
Book(id, title, author) == [id |-> id, title |-> title, author |-> author]
NoBook == Book("", "", "")
User(username, password) == [username |-> username, password |-> password]

(***************************************************************************)
(* Tokens. A token string is either a JWS of three segments carrying a     *)
(* header (alg), the claims and a signature made with some key, or a text  *)
(* that does not parse as one.                                             *)
(***************************************************************************)
\* auth.go:21 and auth.go:38-45: the server's signing key
jwtSecret == "server-secret"
HMACAlgs == {"HS256", "HS384", "HS512"}

\* auth.go:31-35: type Claims with the RegisteredClaims the code fills
Claims(uid, uname, iat, nbf, exp, iss) ==
    [UserID |-> uid, Username |-> uname, IssuedAt |-> iat, NotBefore |-> nbf,
     ExpiresAt |-> exp, Issuer |-> iss, Subject |-> uid]
NoClaims == Claims(0, "", 0, 0, 0, "")

\* a signed token: header alg, payload, and the key of its signature
Jws(alg, key, claims) == [form |-> "jws", alg |-> alg, key |-> key, claims |-> claims, text |-> ""]
\* a string that is not three base64url segments of JSON
Garbage(text) == [form |-> "garbage", alg |-> "", key |-> "", claims |-> NoClaims, text |-> text]
\* server.go:52 and server.go:73: the literal the handlers return as Token
DummyToken == Garbage("dummy_token")
EmptyToken == Garbage("")

\* a token whose nbf is one unit after the clock's reading
GenerateJWTNotBeforeLater(userID, username, t48, t55, t56) ==
    Jws("HS256", jwtSecret,
        Claims(userID, username, t55, t56 + 1, t48 + TokenTTL, "library-service"))

\* auth.go:47-64: GenerateJWT reads the clock three times, at line 48 for
\* exp, at line 55 for iat and at line 56 for nbf, and signs with HS256
GenerateJWTAt(userID, username, t48, t55, t56) ==
    Jws("HS256", jwtSecret,
        Claims(userID, username, t55, t56, t48 + TokenTTL, "library-service"))

\* auth.go:47-64 when the three readings of the clock are the same
GenerateJWT(userID, username, t) == GenerateJWTAt(userID, username, t, t, t)

\* a validator that does not ask which method the header names
ValidateJWTAnyMethod(tokenString, t) ==
    IF tokenString.form # "jws" THEN [ok |-> FALSE, claims |-> NoClaims, err |-> "token is malformed"]
    ELSE IF tokenString.alg \in HMACAlgs /\ tokenString.key # jwtSecret
    THEN [ok |-> FALSE, claims |-> NoClaims, err |-> "signature is invalid"]
    ELSE IF ~(t < tokenString.claims.ExpiresAt)
    THEN [ok |-> FALSE, claims |-> NoClaims, err |-> "token is expired"]
    ELSE IF t < tokenString.claims.NotBefore
    THEN [ok |-> FALSE, claims |-> NoClaims, err |-> "token is not valid yet"]
    ELSE [ok |-> TRUE, claims |-> tokenString.claims, err |-> ""]

\* a validator that returns the claims it parsed together with the error
ValidateJWTReturnsParsed(tokenString, t) ==
    IF tokenString.form # "jws" THEN [ok |-> FALSE, claims |-> NoClaims, err |-> "token is malformed"]
    ELSE IF tokenString.alg \notin HMACAlgs
    THEN [ok |-> FALSE, claims |-> NoClaims, err |-> "unexpected signing method"]
    ELSE IF tokenString.key # jwtSecret
    THEN [ok |-> FALSE, claims |-> NoClaims, err |-> "signature is invalid"]
    ELSE IF ~(t < tokenString.claims.ExpiresAt)
    THEN [ok |-> FALSE, claims |-> tokenString.claims, err |-> "token is expired"]
    ELSE IF t < tokenString.claims.NotBefore
    THEN [ok |-> FALSE, claims |-> tokenString.claims, err |-> "token is not valid yet"]
    ELSE [ok |-> TRUE, claims |-> tokenString.claims, err |-> ""]

\* a validator that still accepts the token at the instant of exp
ValidateJWTAtExpiry(tokenString, t) ==
    IF tokenString.form # "jws" THEN [ok |-> FALSE, claims |-> NoClaims, err |-> "token is malformed"]
    ELSE IF tokenString.alg \notin HMACAlgs
    THEN [ok |-> FALSE, claims |-> NoClaims, err |-> "unexpected signing method"]
    ELSE IF tokenString.key # jwtSecret
    THEN [ok |-> FALSE, claims |-> NoClaims, err |-> "signature is invalid"]
    ELSE IF t > tokenString.claims.ExpiresAt
    THEN [ok |-> FALSE, claims |-> NoClaims, err |-> "token is expired"]
    ELSE IF t < tokenString.claims.NotBefore
    THEN [ok |-> FALSE, claims |-> NoClaims, err |-> "token is not valid yet"]
    ELSE [ok |-> TRUE, claims |-> tokenString.claims, err |-> ""]

\* auth.go:67-87: jwt.ParseWithClaims parses the three segments, asks the key
\* function (which refuses every non-HMAC method), verifies the signature,
\* then validates exp (now < exp) and nbf (now >= nbf); any failure returns
\* nil claims.
ValidateJWT(tokenString, t) ==
    IF tokenString.form # "jws" THEN [ok |-> FALSE, claims |-> NoClaims, err |-> "token is malformed"]
    ELSE IF tokenString.alg \notin HMACAlgs
    THEN [ok |-> FALSE, claims |-> NoClaims, err |-> "unexpected signing method"]
    ELSE IF tokenString.key # jwtSecret
    THEN [ok |-> FALSE, claims |-> NoClaims, err |-> "signature is invalid"]
    ELSE IF ~(t < tokenString.claims.ExpiresAt)
    THEN [ok |-> FALSE, claims |-> NoClaims, err |-> "token is expired"]
    ELSE IF t < tokenString.claims.NotBefore
    THEN [ok |-> FALSE, claims |-> NoClaims, err |-> "token is not valid yet"]
    ELSE [ok |-> TRUE, claims |-> tokenString.claims, err |-> ""]

(***************************************************************************)
(* Call metadata. An authorization value is kept as the characters the     *)
(* code slices off, authHeader[0][:7] (or the whole value when shorter),   *)
(* and the rest, authHeader[0][7:], which is the token string.             *)
(***************************************************************************)
BearerPrefix == <<"B", "e", "a", "r", "e", "r", " ">>
HeaderValue(head, rest) == [head |-> head, rest |-> rest]
\* metadata.FromIncomingContext: ok, and the values under "authorization"
Metadata(ok, authorization) == [ok |-> ok, authorization |-> authorization]
NoMetadata == Metadata(FALSE, << >>)
NoAuthorization == Metadata(TRUE, << >>)
EmptyAuthorization == Metadata(TRUE, <<HeaderValue(<< >>, EmptyToken)>>)
\* "Bearer" without the space: six characters
ShortAuthorization == Metadata(TRUE, <<HeaderValue(<<"B", "e", "a", "r", "e", "r">>, EmptyToken)>>)
\* "Invalid token-here" of auth_test.go:179
OtherScheme(tok) == Metadata(TRUE, <<HeaderValue(<<"I", "n", "v", "a", "l", "i", "d">>, tok)>>)
\* part_004:21-23 addAuthToContext: "Bearer " + token
BearerAuth(tok) == Metadata(TRUE, <<HeaderValue(BearerPrefix, tok)>>)

\* an extraction that drops seven characters whatever they are
extractTokenAnyScheme(md) ==
    IF ~md.ok THEN [ok |-> FALSE, token |-> EmptyToken, err |-> "no metadata found"]
    ELSE IF Len(md.authorization) = 0
    THEN [ok |-> FALSE, token |-> EmptyToken, err |-> "no authorization header"]
    ELSE IF Len(md.authorization[1].head) < BearerLen
    THEN [ok |-> FALSE, token |-> EmptyToken, err |-> "invalid authorization header format"]
    ELSE [ok |-> TRUE, token |-> md.authorization[1].rest, err |-> ""]

\* auth.go:90-107
extractTokenFromMetadata(md) ==
    IF ~md.ok THEN [ok |-> FALSE, token |-> EmptyToken, err |-> "no metadata found"]
    ELSE IF Len(md.authorization) = 0
    THEN [ok |-> FALSE, token |-> EmptyToken, err |-> "no authorization header"]
    ELSE IF Len(md.authorization[1].head) < BearerLen \/ md.authorization[1].head # BearerPrefix
    THEN [ok |-> FALSE, token |-> EmptyToken, err |-> "invalid authorization header format"]
    ELSE [ok |-> TRUE, token |-> md.authorization[1].rest, err |-> ""]

(***************************************************************************)
(* The database: migrations.sql creates users (id SERIAL PRIMARY KEY,      *)
(* username UNIQUE) and books (id PRIMARY KEY). A statement against a      *)
(* dropped table fails.                                                    *)
(***************************************************************************)
VARIABLES
    installed,  \* whether grpc.NewServer was given the two auth interceptors
    tables,     \* whether the users and books tables exist
    users,      \* rows of users: [id, username, password_hash]
    userSeq,    \* next value of the sequence behind users.id
    books,      \* rows of books: a function id -> [title, author]
    now,        \* the clock, in hours
    calls,      \* the calls the server has accepted, by arrival order
    revoked     \* history: the (id, username) pairs whose row was deleted

vars == <<installed, tables, users, userSeq, books, now, calls, revoked>>

UserRow(id, username, hash) == [id |-> id, username |-> username, password_hash |-> hash]
BookRow(title, author) == [title |-> title, author |-> author]
NoBooks == [i \in {} |-> BookRow("", "")]

\* bcrypt.GenerateFromPassword / CompareHashAndPassword (server.go:40, 66):
\* a digest from which only the comparison can be computed
Hash(password) == [bcrypt |-> password]
CompareHashAndPassword(hash, password) == hash.bcrypt = password

\* the statuses a call can end with; a handler error that is no status
\* error reaches the client as Unknown
OK == "OK"
Unauthenticated == "Unauthenticated"
Internal == "Internal"
Unknown == "Unknown"

\* context values under userIDKey and usernameKey (auth.go:24-28)
Identity(userID, username) == [set |-> TRUE, user_id |-> userID, username |-> username]
NoIdentity == [set |-> FALSE, user_id |-> 0, username |-> ""]

\* a lookup by username alone, WHERE username=$1
validateUserByNameOnly(tbl, rows, userID, username) ==
    IF ~tbl THEN "user not found in database"
    ELSE IF ~\E u \in rows : u.username = username
    THEN "user not found in database"
    ELSE ""

\* auth.go:110-125: one SELECT by id and username
validateUserExistsInDB(tbl, rows, userID, username) ==
    IF ~tbl THEN "user not found in database"
    ELSE IF ~\E u \in rows : u.id = userID /\ u.username = username
    THEN "user not found in database"
    ELSE ""

\* the second WithValue applied to the incoming context, not to the first's
IdentityContextLosesUserID(claims) == [set |-> TRUE, user_id |-> 0, username |-> claims.Username]

\* auth.go:151-155 and auth.go:181-190: the context handed to the handler
IdentityContext(claims) == Identity(claims.UserID, claims.Username)

\* library_grpc.pb.go:22-23
UserService_Register_FullMethodName == "/library.UserService/Register"
UserService_Login_FullMethodName == "/library.UserService/Login"
FullMethod(method) ==
    IF method \in {"Register", "Login"} THEN "/library.UserService/" \o method
    ELSE "/library.LibraryService/" \o method

Admitted(ctx, reads) ==
    [admit |-> TRUE, code |-> OK, err |-> "", ctx |-> ctx, reads |-> reads]
Rejected(code, err, reads) ==
    [admit |-> FALSE, code |-> code, err |-> err, ctx |-> NoIdentity, reads |-> reads]

\* the same checks with the failed lookup reported as Internal
AuthenticateLookupInternal(md, t, tbl, rows) ==
    LET ex == extractTokenFromMetadata(md)
        v == ValidateJWT(ex.token, t)
        dberr == validateUserExistsInDB(tbl, rows, v.claims.UserID, v.claims.Username)
    IN  IF ~ex.ok THEN Rejected(Unauthenticated, "authentication failed: " \o ex.err, 0)
        ELSE IF ~v.ok THEN Rejected(Unauthenticated, "invalid token: " \o v.err, 0)
        ELSE IF dberr # ""
        THEN Rejected(Internal, "user validation failed: " \o dberr, 1)
        ELSE Admitted(IdentityContext(v.claims), 1)

\* the same checks with the lookup made before the token is validated
AuthenticateLooksUpFirst(md, t, tbl, rows) ==
    LET ex == extractTokenFromMetadata(md)
        v == ValidateJWT(ex.token, t)
        dberr == validateUserExistsInDB(tbl, rows, v.claims.UserID, v.claims.Username)
    IN  IF ~ex.ok THEN Rejected(Unauthenticated, "authentication failed: " \o ex.err, 0)
        ELSE IF ~v.ok THEN Rejected(Unauthenticated, "invalid token: " \o v.err, 1)
        ELSE IF dberr # ""
        THEN Rejected(Unauthenticated, "user validation failed: " \o dberr, 1)
        ELSE Admitted(IdentityContext(v.claims), 1)

\* auth.go:135-156, the checks both interceptors make after the allow-list
Authenticate(md, t, tbl, rows) ==
    LET ex == extractTokenFromMetadata(md)
        v == ValidateJWT(ex.token, t)
        dberr == validateUserExistsInDB(tbl, rows, v.claims.UserID, v.claims.Username)
    IN  IF ~ex.ok THEN Rejected(Unauthenticated, "authentication failed: " \o ex.err, 0)
        ELSE IF ~v.ok THEN Rejected(Unauthenticated, "invalid token: " \o v.err, 0)
        ELSE IF dberr # ""
        THEN Rejected(Unauthenticated, "user validation failed: " \o dberr, 1)
        ELSE Admitted(IdentityContext(v.claims), 1)

\* an allow-list that names Register alone
CreateAuthInterceptorRegisterOnly(fullMethod, md, t, tbl, rows) ==
    IF fullMethod = UserService_Register_FullMethodName
    THEN Admitted(NoIdentity, 0)
    ELSE Authenticate(md, t, tbl, rows)

\* auth.go:128-157
CreateAuthInterceptor(fullMethod, md, t, tbl, rows) ==
    IF fullMethod = UserService_Register_FullMethodName
       \/ fullMethod = UserService_Login_FullMethodName
    THEN Admitted(NoIdentity, 0)
    ELSE Authenticate(md, t, tbl, rows)

\* auth.go:160-190
CreateStreamAuthInterceptor(md, t, tbl, rows) == Authenticate(md, t, tbl, rows)

(***************************************************************************)
(* Calls. A call is numbered by its arrival; it runs from the generated    *)
(* handler of library_grpc.pb.go through the interceptor, if one is        *)
(* installed, into the method of server.go, whose statements against the   *)
(* database are separate steps.                                            *)
(***************************************************************************)
UnaryMethods == {"Register", "Login", "AddBook", "UpdateBook", "DeleteBook", "ListBooks"}
ProtectedMethods == {"AddBook", "UpdateBook", "DeleteBook", "ListBooks", "BatchAddBooks"}

BookResponse(id, message) == [Id |-> id, Message |-> message]
AuthResponse(token, message) == [Token |-> token, Message |-> message]
ListBookResponse(bs, totalCount) == [Books |-> bs, TotalCount |-> totalCount]
BatchResponse(responses) == [Responses |-> responses]
NoResponse == [Message |-> ""]

IdleCall ==
    [pc |-> "idle", method |-> "", md |-> NoMetadata, req |-> NoBook,
     entered |-> FALSE, ctx |-> NoIdentity, reads |-> 0, prior |-> {},
     code |-> "", err |-> "", resp |-> NoResponse,
     item |-> NoBook, responses |-> << >>, rechecks |-> << >>, page |-> << >>,
     received |-> << >>, recv |-> "", before |-> NoBooks, readings |-> << >>]

Arrived(c) == calls[c].pc # "idle"
Done(c) == calls[c].pc = "done"
\* the interceptor, or the generated handler without one, called the method
HandlerInvoked(c) == calls[c].entered

\* the call returns (resp, err): a nil err is status OK
Return(call, resp, code, err) ==
    [call EXCEPT !.pc = "done", !.resp = resp, !.code = code, !.err = err]

NextToArrive(c) ==
    /\ calls[c].pc = "idle"
    /\ \A d \in Calls : d < c => calls[d].pc # "idle"

\* library_grpc.pb.go:296-311 (and the five handlers like it): without an
\* interceptor the method is called with the incoming context, otherwise the
\* interceptor decides; server.go:218 passes no interceptor to grpc.NewServer
UnaryCall(c, method, md, req) ==
    /\ NextToArrive(c)
    /\ LET r == IF installed
                THEN CreateAuthInterceptor(FullMethod(method), md, now, tables, users)
                ELSE Admitted(NoIdentity, 0)
           call == [IdleCall EXCEPT !.method = method, !.md = md, !.req = req,
                       !.prior = {d \in Calls : Done(d)},
                       !.ctx = r.ctx, !.reads = r.reads]
       IN  calls' = [calls EXCEPT ![c] =
                        IF r.admit THEN [call EXCEPT !.pc = "handler", !.entered = TRUE]
                        ELSE Return(call, NoResponse, r.code, r.err)]
    /\ UNCHANGED <<installed, tables, users, userSeq, books, now, revoked>>

\* library_grpc.pb.go:368-370 _LibraryService_BatchAddBooks_Handler behind
\* the stream interceptor, if one is installed
StreamCall(c, md) ==
    /\ NextToArrive(c)
    /\ LET r == IF installed
                THEN CreateStreamAuthInterceptor(md, now, tables, users)
                ELSE Admitted(NoIdentity, 0)
           \* before: the books when the stream began, kept for the properties
           call == [IdleCall EXCEPT !.method = "BatchAddBooks", !.md = md,
                       !.prior = {d \in Calls : Done(d)},
                       !.ctx = r.ctx, !.reads = r.reads, !.before = books]
       IN  calls' = [calls EXCEPT ![c] =
                        IF r.admit THEN [call EXCEPT !.pc = "handler", !.entered = TRUE]
                        ELSE Return(call, NoResponse, r.code, r.err)]
    /\ UNCHANGED <<installed, tables, users, userSeq, books, now, revoked>>

At(c, method, pc) == calls[c].method = method /\ calls[c].pc = pc

InsertBook(rows, b) ==
    [i \in DOMAIN rows \cup {b.id} |-> IF i = b.id THEN BookRow(b.title, b.author) ELSE rows[i]]

\* an existence query that never finds the row
QueryBookNeverExists(rows, id) == FALSE

\* server.go:83: SELECT EXISTS(SELECT 1 FROM books WHERE id=$1)
QueryBookExists(rows, id) == id \in DOMAIN rows

\* an existence check that stores the request over the row it finds
AddBookCheckOverwrites(c) ==
    /\ At(c, "AddBook", "handler")
    /\ LET book == calls[c].req
           found == book.id # "" /\ tables /\ QueryBookExists(books, book.id)
       IN  /\ calls' = [calls EXCEPT ![c] =
                 IF book.id = "" THEN Return(@, BookResponse("", "Book ID is required"), OK, "")
                 ELSE IF ~tables THEN Return(@, BookResponse(book.id, "Database error"), Unknown, "query failed")
                 ELSE IF found
                 THEN Return(@, BookResponse(book.id, "Book already exists"), OK, "")
                 ELSE [@ EXCEPT !.pc = "insert"]]
           /\ books' = IF found THEN InsertBook(books, book) ELSE books
    /\ UNCHANGED <<installed, tables, users, userSeq, now, revoked>>

\* an AddBook that looks its caller up in users before it queries books
AddBookCheckRevalidates(c) ==
    /\ At(c, "AddBook", "handler")
    /\ LET book == calls[c].req
           absent == /\ calls[c].ctx.set
                     /\ ~\E u \in users : u.id = calls[c].ctx.user_id
       IN  calls' = [calls EXCEPT ![c] =
             IF absent THEN Return(@, NoResponse, Unauthenticated, "user validation failed")
             ELSE IF book.id = "" THEN Return(@, BookResponse("", "Book ID is required"), OK, "")
             ELSE IF ~tables THEN Return(@, BookResponse(book.id, "Database error"), Unknown, "query failed")
             ELSE IF QueryBookExists(books, book.id)
             THEN Return(@, BookResponse(book.id, "Book already exists"), OK, "")
             ELSE [@ EXCEPT !.pc = "insert"]]
    /\ UNCHANGED <<installed, tables, users, userSeq, books, now, revoked>>

\* server.go:77-89: the id check and the existence query
AddBookCheck(c) ==
    /\ At(c, "AddBook", "handler")
    /\ LET book == calls[c].req
       IN  calls' = [calls EXCEPT ![c] =
             IF book.id = "" THEN Return(@, BookResponse("", "Book ID is required"), OK, "")
             ELSE IF ~tables THEN Return(@, BookResponse(book.id, "Database error"), Unknown, "query failed")
             ELSE IF QueryBookExists(books, book.id)
             THEN Return(@, BookResponse(book.id, "Book already exists"), OK, "")
             ELSE [@ EXCEPT !.pc = "insert"]]
    /\ UNCHANGED <<installed, tables, users, userSeq, books, now, revoked>>

\* server.go:90-94: INSERT INTO books; the primary key refuses a second row
AddBookInsert(c) ==
    /\ At(c, "AddBook", "insert")
    /\ LET book == calls[c].req
           fails == ~tables \/ book.id \in DOMAIN books
       IN  /\ calls' = [calls EXCEPT ![c] =
                 IF fails THEN Return(@, BookResponse(book.id, "Failed to add book"), Unknown, "exec failed")
                 ELSE Return(@, BookResponse(book.id, "Book added successfully"), OK, "")]
           /\ books' = IF fails THEN books ELSE InsertBook(books, book)
    /\ UNCHANGED <<installed, tables, users, userSeq, now, revoked>>

\* server.go:77-95: AddBook from its first statement to its return with no
\* other statement against the table in between and no failure of the
\* store: the table it leaves and the response it returns
AddBookAlone(rows, book) ==
    IF book.id = "" THEN [rows |-> rows, resp |-> BookResponse("", "Book ID is required")]
    ELSE IF QueryBookExists(rows, book.id)
    THEN [rows |-> rows, resp |-> BookResponse(book.id, "Book already exists")]
    ELSE [rows |-> InsertBook(rows, book),
          resp |-> BookResponse(book.id, "Book added successfully")]

\* AddBook(b1), ..., AddBook(bn), each called when the one before returned
RECURSIVE AddBooksInSequence(_, _)
AddBooksInSequence(rows, items) ==
    IF items = << >> THEN [rows |-> rows, responses |-> << >>]
    ELSE LET first == AddBookAlone(rows, Head(items))
             rest == AddBooksInSequence(first.rows, Tail(items))
         IN  [rows |-> rest.rows, responses |-> <<first.resp>> \o rest.responses]

\* an UPDATE that inserts the row when there is none
UpdateBookUpserts(c) ==
    /\ At(c, "UpdateBook", "handler")
    /\ LET book == calls[c].req
           hit == book.id # "" /\ tables /\ book.id \in DOMAIN books
       IN  /\ calls' = [calls EXCEPT ![c] =
                 IF book.id = "" THEN Return(@, BookResponse("", "Book ID is required"), OK, "")
                 ELSE IF ~tables THEN Return(@, BookResponse(book.id, "Failed to update book"), Unknown, "exec failed")
                 ELSE IF ~hit THEN Return(@, BookResponse(book.id, "Book not found"), OK, "")
                 ELSE Return(@, BookResponse(book.id, "Book updated successfully"), OK, "")]
           /\ books' = IF book.id # "" /\ tables THEN InsertBook(books, book) ELSE books
    /\ UNCHANGED <<installed, tables, users, userSeq, now, revoked>>

\* a lookup of the row followed, in a later step, by an unconditional store
UpdateBookLoadThenStore(c) ==
    LET book == calls[c].req
    IN  \/ /\ At(c, "UpdateBook", "handler")
           /\ calls' = [calls EXCEPT ![c] =
                 IF book.id = "" THEN Return(@, BookResponse("", "Book ID is required"), OK, "")
                 ELSE IF ~tables THEN Return(@, BookResponse(book.id, "Failed to update book"), Unknown, "exec failed")
                 ELSE IF book.id \notin DOMAIN books
                 THEN Return(@, BookResponse(book.id, "Book not found"), OK, "")
                 ELSE [@ EXCEPT !.pc = "store"]]
           /\ UNCHANGED <<installed, tables, users, userSeq, books, now, revoked>>
        \/ /\ At(c, "UpdateBook", "store")
           /\ calls' = [calls EXCEPT ![c] =
                 Return(@, BookResponse(book.id, "Book updated successfully"), OK, "")]
           /\ books' = InsertBook(books, book)
           /\ UNCHANGED <<installed, tables, users, userSeq, now, revoked>>

\* server.go:97-109: one UPDATE, found or not by the rows it affected
UpdateBook(c) ==
    /\ At(c, "UpdateBook", "handler")
    /\ LET book == calls[c].req
           hit == book.id # "" /\ tables /\ book.id \in DOMAIN books
       IN  /\ calls' = [calls EXCEPT ![c] =
                 IF book.id = "" THEN Return(@, BookResponse("", "Book ID is required"), OK, "")
                 ELSE IF ~tables THEN Return(@, BookResponse(book.id, "Failed to update book"), Unknown, "exec failed")
                 ELSE IF ~hit THEN Return(@, BookResponse(book.id, "Book not found"), OK, "")
                 ELSE Return(@, BookResponse(book.id, "Book updated successfully"), OK, "")]
           /\ books' = IF hit THEN [books EXCEPT ![book.id] = BookRow(book.title, book.author)]
                       ELSE books
    /\ UNCHANGED <<installed, tables, users, userSeq, now, revoked>>

\* a DELETE without its WHERE clause
DeleteBookAll(c) ==
    /\ At(c, "DeleteBook", "handler")
    /\ LET id == calls[c].req.id
           hit == id # "" /\ tables /\ id \in DOMAIN books
       IN  /\ calls' = [calls EXCEPT ![c] =
                 IF id = "" THEN Return(@, BookResponse("", "Book ID is required"), OK, "")
                 ELSE IF ~tables THEN Return(@, BookResponse(id, "Failed to delete book"), Unknown, "exec failed")
                 ELSE IF ~hit THEN Return(@, BookResponse(id, "Book not found"), OK, "")
                 ELSE Return(@, BookResponse(id, "Book deleted successfully"), OK, "")]
           /\ books' = IF hit THEN NoBooks ELSE books
    /\ UNCHANGED <<installed, tables, users, userSeq, now, revoked>>

\* a lookup of the row followed, in a later step, by an unconditional delete
DeleteBookLoadThenDelete(c) ==
    LET id == calls[c].req.id
    IN  \/ /\ At(c, "DeleteBook", "handler")
           /\ calls' = [calls EXCEPT ![c] =
                 IF id = "" THEN Return(@, BookResponse("", "Book ID is required"), OK, "")
                 ELSE IF ~tables THEN Return(@, BookResponse(id, "Failed to delete book"), Unknown, "exec failed")
                 ELSE IF id \notin DOMAIN books
                 THEN Return(@, BookResponse(id, "Book not found"), OK, "")
                 ELSE [@ EXCEPT !.pc = "store"]]
           /\ UNCHANGED <<installed, tables, users, userSeq, books, now, revoked>>
        \/ /\ At(c, "DeleteBook", "store")
           /\ calls' = [calls EXCEPT ![c] =
                 Return(@, BookResponse(id, "Book deleted successfully"), OK, "")]
           /\ books' = [i \in DOMAIN books \ {id} |-> books[i]]
           /\ UNCHANGED <<installed, tables, users, userSeq, now, revoked>>

\* server.go:111-123: one DELETE, found or not by the rows it affected
DeleteBook(c) ==
    /\ At(c, "DeleteBook", "handler")
    /\ LET id == calls[c].req.id
           hit == id # "" /\ tables /\ id \in DOMAIN books
       IN  /\ calls' = [calls EXCEPT ![c] =
                 IF id = "" THEN Return(@, BookResponse("", "Book ID is required"), OK, "")
                 ELSE IF ~tables THEN Return(@, BookResponse(id, "Failed to delete book"), Unknown, "exec failed")
                 ELSE IF ~hit THEN Return(@, BookResponse(id, "Book not found"), OK, "")
                 ELSE Return(@, BookResponse(id, "Book deleted successfully"), OK, "")]
           /\ books' = IF hit THEN [i \in DOMAIN books \ {id} |-> books[i]] ELSE books
    /\ UNCHANGED <<installed, tables, users, userSeq, now, revoked>>

\* ORDER BY id: the ids the store can hold, in ascending order
SortedIds == <<"b1", "b2", "b3", "b4", "b5", "b6", "b7", "b8", "b9", "c1", "c2", "c3">>
\* the ids clients send in calls that write
BookIds == {"b1", "b2"}
InOrder(rows) ==
    LET Has(i) == i \in DOMAIN rows
    IN  SelectSeq(SortedIds, Has)

\* a page that runs one row past its limit
PageOfOneMore(rows, limit, offset) ==
    LET ids == InOrder(rows)
        n == IF offset >= Len(ids) THEN 0
             ELSE IF limit + 1 < Len(ids) - offset THEN limit + 1
             ELSE Len(ids) - offset
    IN  [k \in 1..n |->
            Book(ids[offset + k], rows[ids[offset + k]].title, rows[ids[offset + k]].author)]

\* LIMIT $1 OFFSET $2 over the ordered rows
PageOf(rows, limit, offset) ==
    LET ids == InOrder(rows)
        n == IF offset >= Len(ids) THEN 0
             ELSE IF limit < Len(ids) - offset THEN limit
             ELSE Len(ids) - offset
    IN  [k \in 1..n |->
            Book(ids[offset + k], rows[ids[offset + k]].title, rows[ids[offset + k]].author)]

\* the product of two int32 values in 0..2^31-1 as Go computes it: the low 32
\* bits of the product, read as a signed value. Computed on 16-bit halves so
\* that no intermediate value leaves the 32-bit range.
MulInt32(a, b) ==
    LET ah == a \div 65536
        al == a % 65536
        bh == b \div 65536
        bl == b % 65536
        u == (al \div 256) * bl
        v == (al % 256) * bl
        w == (u % 256) * 256 + v
        lo == w % 65536
        hi == ((u \div 256) + (w \div 65536) + ((ah * bl) % 65536) + ((al * bh) % 65536)) % 65536
    IN  IF hi >= 32768 THEN (hi - 65536) * 65536 + lo ELSE hi * 65536 + lo

\* a page size passed to the query as it came
LimitAsSent(pageSize) == pageSize

\* server.go:126-134
Offset(page, pageSize) ==
    LET p == IF page < 1 THEN 1 ELSE page
        ps == IF pageSize < 1 THEN DefaultPageSize ELSE pageSize
    IN  MulInt32(p - 1, ps)
Limit(pageSize) == IF pageSize < 1 THEN DefaultPageSize ELSE pageSize

\* server.go:125-149: the page query; a negative OFFSET is refused by the
\* database, as is any query on a dropped table
ListBooksQuery(c) ==
    /\ At(c, "ListBooks", "handler")
    /\ LET req == calls[c].req
           offset == Offset(req.page, req.pageSize)
       IN  calls' = [calls EXCEPT ![c] =
             IF ~tables \/ offset < 0 THEN Return(@, NoResponse, Unknown, "query failed")
             ELSE [@ EXCEPT !.pc = "count", !.page = PageOf(books, Limit(req.pageSize), offset)]]
    /\ UNCHANGED <<installed, tables, users, userSeq, books, now, revoked>>

\* server.go:150-155: SELECT COUNT(*) FROM books
ListBooksCount(c) ==
    /\ At(c, "ListBooks", "count")
    /\ calls' = [calls EXCEPT ![c] =
          IF ~tables THEN Return(@, NoResponse, Unknown, "query failed")
          ELSE Return(@, ListBookResponse(calls[c].page, Cardinality(DOMAIN books)), OK, "")]
    /\ UNCHANGED <<installed, tables, users, userSeq, books, now, revoked>>

\* a Register that stores the new password's digest in the row it finds
RegisterCheckRehashes(c) ==
    /\ At(c, "Register", "handler")
    /\ LET user == calls[c].req
           found == {u \in users : u.username = user.username}
       IN  /\ calls' = [calls EXCEPT ![c] =
                 IF ~tables THEN Return(@, AuthResponse(EmptyToken, "Database error"), Unknown, "query failed")
                 ELSE IF found # {}
                 THEN Return(@, AuthResponse(EmptyToken, "Username already exists"), OK, "")
                 ELSE [@ EXCEPT !.pc = "insert"]]
           /\ users' = (users \ found)
                           \cup {UserRow(u.id, u.username, Hash(user.password)) : u \in found}
    /\ UNCHANGED <<installed, tables, userSeq, books, now, revoked>>

\* server.go:26-38: SELECT EXISTS by username
RegisterCheck(c) ==
    /\ At(c, "Register", "handler")
    /\ LET username == calls[c].req.username
       IN  calls' = [calls EXCEPT ![c] =
             IF ~tables THEN Return(@, AuthResponse(EmptyToken, "Database error"), Unknown, "query failed")
             ELSE IF \E u \in users : u.username = username
             THEN Return(@, AuthResponse(EmptyToken, "Username already exists"), OK, "")
             ELSE [@ EXCEPT !.pc = "insert"]]
    /\ UNCHANGED <<installed, tables, users, userSeq, books, now, revoked>>

\* server.go:52: the token a successful Register returns
RegisterToken(userID, username, t) == DummyToken

\* an INSERT INTO users on a table without the UNIQUE constraint
RegisterInsertWithoutUnique(c) ==
    /\ At(c, "Register", "insert")
    /\ LET user == calls[c].req
           fails == ~tables
       IN  /\ calls' = [calls EXCEPT ![c] =
                 IF fails THEN Return(@, AuthResponse(EmptyToken, "Failed to create user"), Unknown, "exec failed")
                 ELSE Return(@, AuthResponse(RegisterToken(userSeq, user.username, now),
                                             "User registered successfully"), OK, "")]
           /\ users' = IF fails THEN users
                       ELSE users \cup {UserRow(userSeq, user.username, Hash(user.password))}
           /\ userSeq' = IF tables THEN userSeq + 1 ELSE userSeq
    /\ UNCHANGED <<installed, tables, books, now, revoked>>

\* server.go:40-53: hash, INSERT INTO users, reply. The sequence behind id
\* advances even when the UNIQUE constraint on username refuses the row.
RegisterInsert(c) ==
    /\ At(c, "Register", "insert")
    /\ LET user == calls[c].req
           fails == ~tables \/ \E u \in users : u.username = user.username
       IN  /\ calls' = [calls EXCEPT ![c] =
                 IF fails THEN Return(@, AuthResponse(EmptyToken, "Failed to create user"), Unknown, "exec failed")
                 ELSE Return(@, AuthResponse(RegisterToken(userSeq, user.username, now),
                                             "User registered successfully"), OK, "")]
           /\ users' = IF fails THEN users
                       ELSE users \cup {UserRow(userSeq, user.username, Hash(user.password))}
           /\ userSeq' = IF tables THEN userSeq + 1 ELSE userSeq
    /\ UNCHANGED <<installed, tables, books, now, revoked>>

\* server.go:73: the token a successful Login returns
LoginToken(userID, username, t) == DummyToken

\* a Login that tells a missing row from a wrong password
LoginNamesTheCause(c) ==
    /\ At(c, "Login", "handler")
    /\ LET creds == calls[c].req
           rows == IF tables THEN {u \in users : u.username = creds.username} ELSE {}
       IN  calls' = [calls EXCEPT ![c] =
             IF rows = {} THEN Return(@, AuthResponse(EmptyToken, "User not found"), OK, "")
             ELSE LET u == CHOOSE r \in rows : TRUE
                  IN  IF ~CompareHashAndPassword(u.password_hash, creds.password)
                      THEN Return(@, AuthResponse(EmptyToken, "Invalid username or password"), OK, "")
                      ELSE Return(@, AuthResponse(LoginToken(u.id, u.username, now), "Login successful"), OK, "")]
    /\ UNCHANGED <<installed, tables, users, userSeq, books, now, revoked>>

\* server.go:56-75: SELECT password_hash by username, then the comparison
Login(c) ==
    /\ At(c, "Login", "handler")
    /\ LET creds == calls[c].req
           rows == IF tables THEN {u \in users : u.username = creds.username} ELSE {}
       IN  calls' = [calls EXCEPT ![c] =
             IF rows = {} THEN Return(@, AuthResponse(EmptyToken, "Invalid username or password"), OK, "")
             ELSE LET u == CHOOSE r \in rows : TRUE
                  IN  IF ~CompareHashAndPassword(u.password_hash, creds.password)
                      THEN Return(@, AuthResponse(EmptyToken, "Invalid username or password"), OK, "")
                      ELSE Return(@, AuthResponse(LoginToken(u.id, u.username, now), "Login successful"), OK, "")]
    /\ UNCHANGED <<installed, tables, users, userSeq, books, now, revoked>>

\* whether the interceptors' checks would pass for this call's metadata now
WouldAdmit(c) == Authenticate(calls[c].md, now, tables, users).admit

\* a Recv that repeats the interceptors' checks on every message
BatchRecvBookRevalidates(c, book) ==
    /\ At(c, "BatchAddBooks", "handler")
    /\ Len(calls[c].rechecks) < MaxBatch
    /\ calls' = [calls EXCEPT ![c] =
          LET got == [@ EXCEPT !.rechecks = Append(@, WouldAdmit(c)),
                               !.received = Append(@, book)]
          IN  IF ~WouldAdmit(c) THEN Return(got, NoResponse, Unauthenticated, "invalid token")
              ELSE IF book.id = ""
              THEN [got EXCEPT !.responses = Append(@, BookResponse("", "Book ID is required"))]
              ELSE IF ~tables
              THEN [got EXCEPT !.responses = Append(@, BookResponse(book.id, "Database error"))]
              ELSE IF QueryBookExists(books, book.id)
              THEN [got EXCEPT !.responses = Append(@, BookResponse(book.id, "Book already exists"))]
              ELSE [got EXCEPT !.pc = "insert", !.item = book]]
    /\ UNCHANGED <<installed, tables, users, userSeq, books, now, revoked>>

\* a Recv loop that returns at the first book it does not add
BatchRecvBookStopsAtFailure(c, book) ==
    /\ At(c, "BatchAddBooks", "handler")
    /\ Len(calls[c].rechecks) < MaxBatch
    /\ calls' = [calls EXCEPT ![c] =
          LET got == [@ EXCEPT !.rechecks = Append(@, WouldAdmit(c)),
                               !.received = Append(@, book)]
          IN  IF book.id = ""
              THEN Return(got, NoResponse, Unknown, "Book ID is required")
              ELSE IF ~tables
              THEN Return(got, NoResponse, Unknown, "Database error")
              ELSE IF QueryBookExists(books, book.id)
              THEN Return(got, NoResponse, Unknown, "Book already exists")
              ELSE [got EXCEPT !.pc = "insert", !.item = book]]
    /\ UNCHANGED <<installed, tables, users, userSeq, books, now, revoked>>

\* a Recv that sends a book without an id on to the existence query
BatchRecvBookAddsUnnamed(c, book) ==
    /\ At(c, "BatchAddBooks", "handler")
    /\ Len(calls[c].rechecks) < MaxBatch
    /\ calls' = [calls EXCEPT ![c] =
          LET got == [@ EXCEPT !.rechecks = Append(@, WouldAdmit(c)),
                               !.received = Append(@, book)]
          IN  IF ~tables
              THEN [got EXCEPT !.responses = Append(@, BookResponse(book.id, "Database error"))]
              ELSE IF QueryBookExists(books, book.id)
              THEN [got EXCEPT !.responses = Append(@, BookResponse(book.id, "Book already exists"))]
              ELSE [got EXCEPT !.pc = "insert", !.item = book]]
    /\ UNCHANGED <<installed, tables, users, userSeq, books, now, revoked>>

\* server.go:162-182: stream.Recv returns a book; the id check and the
\* existence query follow
BatchRecvBook(c, book) ==
    /\ At(c, "BatchAddBooks", "handler")
    /\ Len(calls[c].rechecks) < MaxBatch
    /\ calls' = [calls EXCEPT ![c] =
          LET got == [@ EXCEPT !.rechecks = Append(@, WouldAdmit(c)),
                               !.received = Append(@, book)]
          IN  IF book.id = ""
              THEN [got EXCEPT !.responses = Append(@, BookResponse("", "Book ID is required"))]
              ELSE IF ~tables
              THEN [got EXCEPT !.responses = Append(@, BookResponse(book.id, "Database error"))]
              ELSE IF QueryBookExists(books, book.id)
              THEN [got EXCEPT !.responses = Append(@, BookResponse(book.id, "Book already exists"))]
              ELSE [got EXCEPT !.pc = "insert", !.item = book]]
    /\ UNCHANGED <<installed, tables, users, userSeq, books, now, revoked>>

\* an insert whose result is put in front of the earlier ones
BatchInsertPrepends(c) ==
    /\ At(c, "BatchAddBooks", "insert")
    /\ LET book == calls[c].item
           fails == ~tables \/ book.id \in DOMAIN books
       IN  /\ calls' = [calls EXCEPT ![c] =
                 [@ EXCEPT !.pc = "handler", !.item = NoBook,
                           !.responses = <<BookResponse(book.id,
                               IF fails THEN "Failed to add book" ELSE "Book added successfully")>> \o @]]
           /\ books' = IF fails THEN books ELSE InsertBook(books, book)
    /\ UNCHANGED <<installed, tables, users, userSeq, now, revoked>>

\* an insert that leaves the new book alone in the table
BatchInsertReplacesStore(c) ==
    /\ At(c, "BatchAddBooks", "insert")
    /\ LET book == calls[c].item
           fails == ~tables \/ book.id \in DOMAIN books
       IN  /\ calls' = [calls EXCEPT ![c] =
                 [@ EXCEPT !.pc = "handler", !.item = NoBook,
                           !.responses = Append(@, BookResponse(book.id,
                               IF fails THEN "Failed to add book" ELSE "Book added successfully"))]]
           /\ books' = IF fails THEN books ELSE InsertBook(NoBooks, book)
    /\ UNCHANGED <<installed, tables, users, userSeq, now, revoked>>

\* an insert that replaces the row of a present id and reports success
BatchInsertUpserts(c) ==
    /\ At(c, "BatchAddBooks", "insert")
    /\ LET book == calls[c].item
           fails == ~tables
       IN  /\ calls' = [calls EXCEPT ![c] =
                 [@ EXCEPT !.pc = "handler", !.item = NoBook,
                           !.responses = Append(@, BookResponse(book.id,
                               IF fails THEN "Failed to add book" ELSE "Book added successfully"))]]
           /\ books' = IF fails THEN books ELSE InsertBook(books, book)
    /\ UNCHANGED <<installed, tables, users, userSeq, now, revoked>>

\* server.go:183-188: INSERT INTO books for the book just received
BatchInsert(c) ==
    /\ At(c, "BatchAddBooks", "insert")
    /\ LET book == calls[c].item
           fails == ~tables \/ book.id \in DOMAIN books
       IN  /\ calls' = [calls EXCEPT ![c] =
                 [@ EXCEPT !.pc = "handler", !.item = NoBook,
                           !.responses = Append(@, BookResponse(book.id,
                               IF fails THEN "Failed to add book" ELSE "Book added successfully"))]]
           /\ books' = IF fails THEN books ELSE InsertBook(books, book)
    /\ UNCHANGED <<installed, tables, users, userSeq, now, revoked>>

\* server.go:163-165: io.EOF, the client closed its side; SendAndClose
BatchRecvEOF(c) ==
    /\ At(c, "BatchAddBooks", "handler")
    /\ calls' = [calls EXCEPT ![c] =
          Return([@ EXCEPT !.recv = "EOF"], BatchResponse(calls[c].responses), OK, "")]
    /\ UNCHANGED <<installed, tables, users, userSeq, books, now, revoked>>

\* a failed Recv answered with the results gathered so far
BatchRecvErrorSendsPartial(c) ==
    /\ At(c, "BatchAddBooks", "handler")
    /\ calls' = [calls EXCEPT ![c] =
          Return([@ EXCEPT !.recv = "error"], BatchResponse(calls[c].responses), OK, "")]
    /\ UNCHANGED <<installed, tables, users, userSeq, books, now, revoked>>

\* a failed Recv that takes the stream's own inserts back
BatchRecvErrorRollsBack(c) ==
    /\ At(c, "BatchAddBooks", "handler")
    /\ calls' = [calls EXCEPT ![c] =
          Return([@ EXCEPT !.recv = "error"], NoResponse, Internal, "failed to receive book")]
    /\ LET own == {calls[c].responses[i].Id :
                     i \in {j \in DOMAIN calls[c].responses :
                               calls[c].responses[j].Message = "Book added successfully"}}
       IN  books' = [i \in DOMAIN books \ own |-> books[i]]
    /\ UNCHANGED <<installed, tables, users, userSeq, now, revoked>>

\* server.go:166-168: any other error of stream.Recv
BatchRecvError(c) ==
    /\ At(c, "BatchAddBooks", "handler")
    /\ calls' = [calls EXCEPT ![c] =
          Return([@ EXCEPT !.recv = "error"], NoResponse, Internal, "failed to receive book")]
    /\ UNCHANGED <<installed, tables, users, userSeq, books, now, revoked>>

(***************************************************************************)
(* The environment: the clock, and a server started with -clear-db on the  *)
(* same database (server.go:206-216), which drops the tables and then      *)
(* runs the migrations.                                                    *)
(***************************************************************************)
Tick ==
    /\ now < MaxTime
    /\ now' = now + 1
    /\ UNCHANGED <<installed, tables, users, userSeq, books, calls, revoked>>

\* db.go:45-52: DROP TABLE IF EXISTS books; DROP TABLE IF EXISTS users
ClearDatabase ==
    /\ tables
    /\ tables' = FALSE
    /\ users' = {}
    /\ books' = NoBooks
    /\ revoked' = revoked \cup {<<u.id, u.username>> : u \in users}
    /\ UNCHANGED <<installed, userSeq, now, calls>>

\* db.go:34-43 with migrations.sql: CREATE TABLE IF NOT EXISTS; a created
\* users table has a new sequence, which starts at 1
RunMigrations ==
    /\ ~tables
    /\ tables' = TRUE
    /\ userSeq' = 1
    /\ UNCHANGED <<installed, users, books, now, calls, revoked>>

(***************************************************************************)
(* What clients send.                                                      *)
(***************************************************************************)
Contents == {<<"t1", "a1">>, <<"t2", "a2">>}
BookRequests == {Book(i, ta[1], ta[2]) : i \in BookIds \cup {""}, ta \in Contents}
BookIdRequests == {[id |-> i] : i \in BookIds \cup {""}}
UserRequests == {User(u, p) : u \in Usernames, p \in Passwords}
ListRequests == {[page |-> p, pageSize |-> n] : p \in 0..2, n \in 0..1}

Requests(method) ==
    CASE method \in {"AddBook", "UpdateBook"} -> BookRequests
      [] method = "DeleteBook" -> BookIdRequests
      [] method = "ListBooks" -> ListRequests
      [] OTHER -> UserRequests

\* the rows of alice and bob, registered before this server was started
AliceRow == UserRow(1, "alice", Hash("secret1"))
BobRow == UserRow(2, "bob", Hash("secret2"))
\* tokens for alice's row: as GenerateJWT mints them, and one minted 23 hours
\* before the clock starts, which expires at 1
AliceToken == GenerateJWT(1, "alice", 0)
AliceOldToken == GenerateJWT(1, "alice", 1 - TokenTTL)
BobToken == GenerateJWT(2, "bob", 0)
\* a token for alice under an id her row does not have
AliceOtherIdToken == GenerateJWT(2, "alice", 0)
\* auth_test.go:237-253 generateTokenWithWrongSecret
WrongSecretToken == Jws("HS256", "wrong-secret-key", AliceToken.claims)
\* the same claims under a header that names no HMAC method
NoneAlgToken == Jws("none", "", AliceToken.claims)
\* auth_test.go:112
MalformedToken == Garbage("invalid.token.format")

\* the metadata of the client of part_004 and of no client library at all
MainMetadata == {NoMetadata, BearerAuth(DummyToken)}

AuthTokens ==
    {AliceToken, AliceOldToken, BobToken, AliceOtherIdToken, WrongSecretToken,
     MalformedToken}
AuthMetadata ==
    {NoMetadata, NoAuthorization, OtherScheme(AliceToken)}
        \cup {BearerAuth(tok) : tok \in AuthTokens}

\* one request per method where the interceptors are what is looked at
AuthRequests(method) ==
    CASE method \in {"AddBook", "UpdateBook"} -> {Book("b1", "t1", "a1")}
      [] method = "DeleteBook" -> {[id |-> "b1"]}
      [] method = "ListBooks" -> {[page |-> 1, pageSize |-> 1]}
      [] OTHER -> {User("alice", "secret1")}
AuthBooks == {Book("b1", "t1", "a1")}

Init ==
    /\ installed = FALSE
    /\ tables = TRUE
    /\ users = {}
    /\ userSeq = 1
    /\ books = NoBooks
    /\ now = 0
    /\ calls = [c \in Calls |-> IdleCall]
    /\ revoked = {}

\* the same server with CreateAuthInterceptor and CreateStreamAuthInterceptor
\* given to grpc.NewServer, on a database in which alice and bob are registered
InitAuth ==
    /\ installed = TRUE
    /\ tables = TRUE
    /\ users = {AliceRow, BobRow}
    /\ userSeq = 3
    /\ books = NoBooks
    /\ now = 0
    /\ calls = [c \in Calls |-> IdleCall]
    /\ revoked = {}

Handlers ==
    \/ \E c \in Calls : RegisterCheck(c)
    \/ \E c \in Calls : RegisterInsert(c)
    \/ \E c \in Calls : Login(c)
    \/ \E c \in Calls : AddBookCheck(c)
    \/ \E c \in Calls : AddBookInsert(c)
    \/ \E c \in Calls : UpdateBook(c)
    \/ \E c \in Calls : DeleteBook(c)
    \/ \E c \in Calls : ListBooksQuery(c)
    \/ \E c \in Calls : ListBooksCount(c)
    \/ \E c \in Calls : BatchInsert(c)
    \/ \E c \in Calls : BatchRecvEOF(c)
    \/ \E c \in Calls : BatchRecvError(c)

(***************************************************************************)
(* Spec: the server as main starts it (server.go:192-230).                 *)
(***************************************************************************)
Next ==
    \/ \E c \in Calls, m \in UnaryMethods, md \in MainMetadata :
          \E req \in AuthRequests(m) : UnaryCall(c, m, md, req)
    \/ \E c \in Calls, md \in MainMetadata : StreamCall(c, md)
    \/ \E c \in Calls, b \in AuthBooks : BatchRecvBook(c, b)
    \/ Handlers
    \/ ClearDatabase
    \/ RunMigrations

Spec == Init /\ [][Next]_vars

(***************************************************************************)
(* SpecAuth: the server with both interceptors installed.                  *)
(***************************************************************************)
NextAuth ==
    \/ \E c \in Calls, m \in UnaryMethods, md \in AuthMetadata :
          \E req \in AuthRequests(m) : UnaryCall(c, m, md, req)
    \/ \E c \in Calls, md \in AuthMetadata : StreamCall(c, md)
    \/ \E c \in Calls : RegisterCheck(c)
    \/ \E c \in Calls : RegisterInsert(c)
    \/ \E c \in Calls : Login(c)
    \/ \E c \in Calls : AddBookCheck(c)
    \/ \E c \in Calls : AddBookInsert(c)
    \/ \E c \in Calls : UpdateBook(c)
    \/ \E c \in Calls : DeleteBook(c)
    \/ \E c \in Calls : ListBooksQuery(c)
    \/ \E c \in Calls : ListBooksCount(c)
    \/ \E c \in Calls : BatchRecvEOF(c)
    \/ \E c \in Calls : BatchRecvError(c)
    \/ ClearDatabase
    \/ RunMigrations
    \/ Tick

\* every method under every kind of metadata; the streams carry no book
SpecAuth == InitAuth /\ [][NextAuth]_vars

(***************************************************************************)
(* SpecStream: the server with both interceptors installed, under          *)
(* BatchAddBooks streams alone, while the clock runs and the tables are    *)
(* dropped and recreated.                                                  *)
(***************************************************************************)
StreamMetadata == {NoMetadata, BearerAuth(AliceToken), BearerAuth(AliceOldToken)}
StreamBooks == {Book("b1", "t1", "a1")}

NextStream ==
    \/ \E c \in Calls, md \in StreamMetadata : StreamCall(c, md)
    \/ \E c \in Calls, b \in StreamBooks : BatchRecvBook(c, b)
    \/ \E c \in Calls : BatchInsert(c)
    \/ \E c \in Calls : BatchRecvEOF(c)
    \/ \E c \in Calls : BatchRecvError(c)
    \/ ClearDatabase
    \/ RunMigrations
    \/ Tick

SpecStream == InitAuth /\ [][NextStream]_vars

(***************************************************************************)
(* SpecAdd: the server as main starts it, under AddBook calls alone.       *)
(***************************************************************************)
NextAdd ==
    \/ \E c \in Calls, b \in BookRequests : UnaryCall(c, "AddBook", NoMetadata, b)
    \/ \E c \in Calls : AddBookCheck(c)
    \/ \E c \in Calls : AddBookInsert(c)

SpecAdd == Init /\ [][NextAdd]_vars

(***************************************************************************)
(* SpecCatalog: the server as main starts it, on a store that already      *)
(* holds some books, under every method; no table is dropped.              *)
(***************************************************************************)
InitialStores ==
    {NoBooks,
     InsertBook(NoBooks, Book("b1", "t1", "a1")),
     InsertBook(InsertBook(NoBooks, Book("b1", "t1", "a1")), Book("b2", "t1", "a1"))}
CatalogBooks == {Book("b1", "t2", "a2"), Book("b2", "t2", "a2"), Book("", "t2", "a2")}
CatalogRequests(method) ==
    CASE method \in {"AddBook", "UpdateBook"} -> CatalogBooks
      [] method = "DeleteBook" -> BookIdRequests
      [] method = "ListBooks" -> {[page |-> 1, pageSize |-> 1]}
      [] OTHER -> {User("alice", "secret1")}

InitCatalog ==
    /\ installed = FALSE
    /\ tables = TRUE
    /\ users = {}
    /\ userSeq = 1
    /\ books \in InitialStores
    /\ now = 0
    /\ calls = [c \in Calls |-> IdleCall]
    /\ revoked = {}

NextCatalog ==
    \/ \E c \in Calls, m \in UnaryMethods :
          \E req \in CatalogRequests(m) : UnaryCall(c, m, NoMetadata, req)
    \/ \E c \in Calls : StreamCall(c, NoMetadata)
    \/ \E c \in Calls, b \in CatalogBooks : BatchRecvBook(c, b)
    \/ \E c \in Calls : RegisterCheck(c)
    \/ \E c \in Calls : RegisterInsert(c)
    \/ \E c \in Calls : Login(c)
    \/ \E c \in Calls : AddBookCheck(c)
    \/ \E c \in Calls : AddBookInsert(c)
    \/ \E c \in Calls : UpdateBook(c)
    \/ \E c \in Calls : DeleteBook(c)
    \/ \E c \in Calls : ListBooksQuery(c)
    \/ \E c \in Calls : ListBooksCount(c)
    \/ \E c \in Calls : BatchInsert(c)
    \/ \E c \in Calls : BatchRecvEOF(c)
    \/ \E c \in Calls : BatchRecvError(c)

SpecCatalog == InitCatalog /\ [][NextCatalog]_vars

(***************************************************************************)
(* SpecList: the server as main starts it, under ListBooks calls alone, on *)
(* a store that does not change.                                           *)
(***************************************************************************)
\* the first n ids of the order, each with a title and an author
StoreOf(n) == [i \in {SortedIds[k] : k \in 1..n} |-> BookRow("t1", "a1")]
ListStores == {StoreOf(0), StoreOf(1), StoreOf(3), StoreOf(Len(SortedIds))}
\* pages and page sizes below 1, small ones, and ones whose product does
\* not fit an int32
ListPages == {-1, 0, 1, 2, 3, 65537}
ListPageSizes == {-1, 0, 1, 5, 10, 65536, 1073741824}
PagedRequests == {[page |-> p, pageSize |-> n] : p \in ListPages, n \in ListPageSizes}

InitList ==
    /\ installed = FALSE
    /\ tables = TRUE
    /\ users = {}
    /\ userSeq = 1
    /\ books \in ListStores
    /\ now = 0
    /\ calls = [c \in Calls |-> IdleCall]
    /\ revoked = {}

NextList ==
    \/ \E c \in Calls, req \in PagedRequests : UnaryCall(c, "ListBooks", NoMetadata, req)
    \/ \E c \in Calls : ListBooksQuery(c)
    \/ \E c \in Calls : ListBooksCount(c)

SpecList == InitList /\ [][NextList]_vars

(***************************************************************************)
(* SpecBatch: the server as main starts it, under BatchAddBooks streams    *)
(* alone, while the tables are dropped and recreated.                      *)
(***************************************************************************)
BatchBooks == {Book("b1", "t1", "a1"), Book("b2", "t1", "a1"), Book("", "t1", "a1")}

NextBatch ==
    \/ \E c \in Calls : StreamCall(c, NoMetadata)
    \/ \E c \in Calls, b \in BatchBooks : BatchRecvBook(c, b)
    \/ \E c \in Calls : BatchInsert(c)
    \/ \E c \in Calls : BatchRecvEOF(c)
    \/ \E c \in Calls : BatchRecvError(c)
    \/ ClearDatabase
    \/ RunMigrations

SpecBatch == Init /\ [][NextBatch]_vars

(***************************************************************************)
(* SpecUsers: the server as main starts it, under Register and Login calls *)
(* alone, on a users table that is empty or holds alice, while the tables  *)
(* are dropped and recreated.                                              *)
(***************************************************************************)
InitialUsers == {{}, {AliceRow}}

InitUsers ==
    /\ installed = FALSE
    /\ tables = TRUE
    /\ users \in InitialUsers
    /\ userSeq = Cardinality(users) + 1
    /\ books = NoBooks
    /\ now = 0
    /\ calls = [c \in Calls |-> IdleCall]
    /\ revoked = {}

NextUsers ==
    \/ \E c \in Calls, m \in {"Register", "Login"}, req \in UserRequests :
          UnaryCall(c, m, NoMetadata, req)
    \/ \E c \in Calls : RegisterCheck(c)
    \/ \E c \in Calls : RegisterInsert(c)
    \/ \E c \in Calls : Login(c)
    \/ ClearDatabase
    \/ RunMigrations

SpecUsers == InitUsers /\ [][NextUsers]_vars

(***************************************************************************)
(* SpecToken: the functions of auth.go called on their own, as the tests   *)
(* of auth_test.go and server_test.go call them: GenerateJWT, whose three  *)
(* readings of the clock are three steps, ValidateJWT on tokens it minted  *)
(* and on tokens made elsewhere, and extractTokenFromMetadata; the clock   *)
(* runs in between, by a unit or by about the lifetime of a token.         *)
(***************************************************************************)
\* auth.go:48: expirationTime := time.Now().Add(24 * time.Hour)
CallGenerateJWT(c, userID, username) ==
    /\ NextToArrive(c)
    /\ calls' = [calls EXCEPT ![c] =
          [IdleCall EXCEPT !.pc = "iat", !.method = "GenerateJWT",
                           !.req = [userID |-> userID, username |-> username],
                           !.prior = {d \in Calls : Done(d)},
                           !.readings = <<now>>]]
    /\ UNCHANGED <<installed, tables, users, userSeq, books, now, revoked>>

\* auth.go:55: IssuedAt: jwt.NewNumericDate(time.Now())
GenerateJWTIssuedAt(c) ==
    /\ At(c, "GenerateJWT", "iat")
    /\ calls' = [calls EXCEPT ![c] = [@ EXCEPT !.pc = "nbf", !.readings = Append(@, now)]]
    /\ UNCHANGED <<installed, tables, users, userSeq, books, now, revoked>>

\* auth.go:56-63: NotBefore: jwt.NewNumericDate(time.Now()), then the token
\* is signed and returned
GenerateJWTSign(c) ==
    /\ At(c, "GenerateJWT", "nbf")
    /\ LET call == calls[c]
           token == GenerateJWTAt(call.req.userID, call.req.username,
                                  call.readings[1], call.readings[2], now)
       IN  calls' = [calls EXCEPT ![c] =
               Return([@ EXCEPT !.readings = Append(@, now)],
                      [Token |-> token, Message |-> ""], OK, "")]
    /\ UNCHANGED <<installed, tables, users, userSeq, books, now, revoked>>

\* the tokens GenerateJWT has returned
Minted == {calls[d].resp.Token : d \in {e \in Calls : calls[e].method = "GenerateJWT" /\ Done(e)}}

\* auth.go:67-87 called with a token string: it returns (claims, err)
CallValidateJWT(c, tokenString) ==
    /\ NextToArrive(c)
    /\ LET v == ValidateJWT(tokenString, now)
       IN  calls' = [calls EXCEPT ![c] =
               Return([IdleCall EXCEPT !.method = "ValidateJWT", !.req = tokenString,
                                       !.prior = {d \in Calls : Done(d)}],
                      [Claims |-> v.claims, Message |-> v.err],
                      IF v.ok THEN OK ELSE "", v.err)]
    /\ UNCHANGED <<installed, tables, users, userSeq, books, now, revoked>>

\* auth.go:90-107 called with the metadata of a context: it returns
\* (token, err)
CallExtractToken(c, md) ==
    /\ NextToArrive(c)
    /\ LET r == extractTokenFromMetadata(md)
       IN  calls' = [calls EXCEPT ![c] =
               Return([IdleCall EXCEPT !.method = "extractTokenFromMetadata", !.md = md,
                                       !.prior = {d \in Calls : Done(d)}],
                      [Token |-> r.token, Message |-> r.err],
                      IF r.ok THEN OK ELSE "", r.err)]
    /\ UNCHANGED <<installed, tables, users, userSeq, books, now, revoked>>

\* the clock moves on by a long time, once, between two calls: GenerateJWT
\* is three statements, during which the clock's reading can turn (Tick) but
\* a day does not pass
Naps == {TokenTTL - 1, TokenTTL}
Sleep(d) ==
    /\ now <= MaxTime
    /\ \A c \in Calls : calls[c].pc \in {"idle", "done"}
    /\ now' = now + d
    /\ UNCHANGED <<installed, tables, users, userSeq, books, calls, revoked>>

\* auth_test.go:82-92: claims that expired before the clock started; the
\* claims of a token minted at 0; and claims that expire at 1
ExpiredClaims == Claims(1, "alice", 0 - 2, 0 - 2, 0 - 1, "library-service")
TokenClaims == {AliceToken.claims, AliceOldToken.claims, ExpiredClaims}
\* header methods: two of the HMAC family, none, and an asymmetric one
TokenAlgs == {"HS256", "HS384", "none", "RS256"}
TokenKeys == {jwtSecret, "wrong-secret-key"}
TokenInputs ==
    {Jws(alg, key, claims) : alg \in TokenAlgs, key \in TokenKeys, claims \in TokenClaims}
        \cup {EmptyToken, MalformedToken, DummyToken}

\* "bearer " in lower case
LowerCaseBearer(tok) == Metadata(TRUE, <<HeaderValue(<<"b", "e", "a", "r", "e", "r", " ">>, tok)>>)
\* two values under "authorization"
TwoValues(first, second) == Metadata(TRUE, first.authorization \o second.authorization)
TokenMetadata ==
    {NoMetadata, NoAuthorization, EmptyAuthorization, ShortAuthorization,
     OtherScheme(AliceToken), LowerCaseBearer(AliceToken),
     BearerAuth(AliceToken), BearerAuth(MalformedToken), BearerAuth(EmptyToken),
     TwoValues(BearerAuth(AliceToken), BearerAuth(BobToken)),
     TwoValues(OtherScheme(AliceToken), BearerAuth(BobToken))}

NextToken ==
    \/ \E c \in Calls, userID \in UserIds, username \in Usernames :
          CallGenerateJWT(c, userID, username)
    \/ \E c \in Calls : GenerateJWTIssuedAt(c)
    \/ \E c \in Calls : GenerateJWTSign(c)
    \/ \E c \in Calls, tok \in TokenInputs \cup Minted : CallValidateJWT(c, tok)
    \/ \E c \in Calls, md \in TokenMetadata : CallExtractToken(c, md)
    \/ Tick
    \/ \E d \in Naps : Sleep(d)

SpecToken == Init /\ [][NextToken]_vars

(***************************************************************************)
(* The web client's TokenManager (part_001), which keeps the token the    *)
(* server returned and decides before a call whether it is still worth    *)
(* presenting.  The claims of a token count seconds here, as the payload   *)
(* the client decodes does.                                                *)
(***************************************************************************)
\* part_001:34 and part_001:72-75: no token is stored
NullToken == [form |-> "null", alg |-> "", key |-> "", claims |-> NoClaims, text |-> ""]

\* Math.min
MathMin(a, b) == IF a <= b THEN a ELSE b

\* part_001:88
ClockSkewBuffer == 30
LifetimeDivisor == 10

\* the buffer as the larger of the two
bufferTimeLarger(payload) ==
    LET tenth == (payload.ExpiresAt - payload.IssuedAt) \div LifetimeDivisor
    IN  IF tenth >= ClockSkewBuffer THEN tenth ELSE ClockSkewBuffer

\* part_001:87-88: 30 seconds or a tenth of the lifetime, rounded down,
\* whichever is smaller
bufferTime(payload) ==
    MathMin(ClockSkewBuffer, (payload.ExpiresAt - payload.IssuedAt) \div LifetimeDivisor)

\* part_001:77-108: isTokenValid on the stored token at currentTime returns
\* the boolean and leaves the field token as returned here; the signature
\* is not looked at, and a string without a payload to decode throws
isTokenValid(token, currentTime) ==
    IF token = NullToken \/ token = EmptyToken
    THEN [valid |-> FALSE, token |-> token]
    ELSE IF token.form # "jws"
    THEN [valid |-> FALSE, token |-> NullToken]
    ELSE IF token.claims.ExpiresAt <= currentTime + bufferTime(token.claims)
    THEN [valid |-> FALSE, token |-> NullToken]
    ELSE [valid |-> TRUE, token |-> token]

\* the call on a TokenManager that holds tok: Date.now() is read once
CallIsTokenValid(c, tok) ==
    /\ NextToArrive(c)
    /\ LET r == isTokenValid(tok, now)
       IN  calls' = [calls EXCEPT ![c] =
               Return([IdleCall EXCEPT !.method = "isTokenValid", !.req = tok,
                                       !.readings = <<now>>],
                      [Valid |-> r.valid, Token |-> r.token, Message |-> ""], OK, "")]
    /\ UNCHANGED <<installed, tables, users, userSeq, books, now, revoked>>

\* tokens as GenerateJWT signs them, minted at ClientIssuedAt with lifetimes
\* whose tenth is below, at and above 30 seconds; the server's is a day
ClientIssuedAt == 1000
SecondsPerHour == 3600
ClientLifetimes == {1, 19, 20, 299, 300, TokenTTL * SecondsPerHour}
SessionToken(lifetime) ==
    Jws("HS256", jwtSecret,
        Claims(1, "alice", ClientIssuedAt, ClientIssuedAt, ClientIssuedAt + lifetime,
               "library-service"))
ClientTokens ==
    {SessionToken(lifetime) : lifetime \in ClientLifetimes}
        \cup {NullToken, EmptyToken, MalformedToken, DummyToken}
\* the seconds around each token's expiry and around its expiry less the buffer
ClientLeads == {0, 1, 2, 3, 29, 30, 31}
ClientTimes ==
    {ClientIssuedAt + lifetime - lead : lifetime \in ClientLifetimes, lead \in ClientLeads}

InitClient ==
    /\ installed = FALSE
    /\ tables = TRUE
    /\ users = {}
    /\ userSeq = 1
    /\ books = NoBooks
    /\ now \in ClientTimes
    /\ calls = [c \in Calls |-> IdleCall]
    /\ revoked = {}

\* time passes between two calls of the client
ClientWait(t) ==
    /\ t > now
    /\ now' = t
    /\ UNCHANGED <<installed, tables, users, userSeq, books, calls, revoked>>

NextClient ==
    \/ \E c \in Calls, tok \in ClientTokens : CallIsTokenValid(c, tok)
    \/ \E t \in ClientTimes : ClientWait(t)

SpecClient == InitClient /\ [][NextClient]_vars

(***************************************************************************)
(* SpecAdders: the server as main starts it, under BatchAddBooks streams   *)
(* and AddBook calls that submit one id with different contents.           *)
(***************************************************************************)
AdderBooks == {Book("b1", "t1", "a1"), Book("b1", "t2", "a2"), Book("b2", "t1", "a1")}
AdderStores == {NoBooks, InsertBook(NoBooks, Book("b2", "t2", "a2"))}

InitAdders ==
    /\ installed = FALSE
    /\ tables = TRUE
    /\ users = {}
    /\ userSeq = 1
    /\ books \in AdderStores
    /\ now = 0
    /\ calls = [c \in Calls |-> IdleCall]
    /\ revoked = {}

NextAdders ==
    \/ \E c \in Calls, b \in AdderBooks : UnaryCall(c, "AddBook", NoMetadata, b)
    \/ \E c \in Calls : StreamCall(c, NoMetadata)
    \/ \E c \in Calls, b \in AdderBooks : BatchRecvBook(c, b)
    \/ \E c \in Calls : AddBookCheck(c)
    \/ \E c \in Calls : AddBookInsert(c)
    \/ \E c \in Calls : BatchInsert(c)
    \/ \E c \in Calls : BatchRecvEOF(c)
    \/ \E c \in Calls : BatchRecvError(c)

SpecAdders == InitAdders /\ [][NextAdders]_vars

(***************************************************************************)
(* The claims.                                                           *)
(***************************************************************************)
\* the call arrives in this step
Arrives(c) == calls[c].pc = "idle" /\ calls'[c].pc # "idle"
\* the token the arriving call presents, if its metadata yields one
Presented(c) == extractTokenFromMetadata(calls'[c].md)
\* the arriving call presents a token that passes signature and expiry
PresentsValidToken(c) == Presented(c).ok /\ ValidateJWT(Presented(c).token, now).ok
RowPresent(claims) ==
    tables /\ \E u \in users : u.id = claims.UserID /\ u.username = claims.Username
RejectedUnauthenticated(call) ==
    call.pc = "done" /\ ~call.entered /\ call.code = Unauthenticated

Message(c) == calls[c].resp.Message
Added(c) == Done(c) /\ calls[c].code = OK /\ Message(c) = "Book added successfully"
Duplicate(c) == Done(c) /\ calls[c].code = OK /\ Message(c) = "Book already exists"
SameBook(c, d) ==
    /\ calls[c].method = "AddBook" /\ calls[d].method = "AddBook"
    /\ calls[c].req.id = calls[d].req.id /\ calls[c].req.id # ""
\* both have arrived and neither had returned when the other arrived
Concurrent(c, d) == Arrived(c) /\ Arrived(d) /\ c \notin calls[d].prior /\ d \notin calls[c].prior
Stored(c) ==
    /\ calls[c].req.id \in DOMAIN books
    /\ books[calls[c].req.id] = BookRow(calls[c].req.title, calls[c].req.author)

\* C1: in the server as main starts it, a call to a protected method whose
\* metadata yields no Bearer token ends Unauthenticated and the method is
\* never invoked for it.
C1_NoBearerNeverReachesHandler ==
    \A c \in Calls :
        Arrived(c) /\ calls[c].method \in ProtectedMethods
                   /\ ~extractTokenFromMetadata(calls[c].md).ok
            => RejectedUnauthenticated(calls[c])

\* C2 (as amended): a protected call that presents a token passing signature
\* and expiry is admitted exactly when the users table holds, at that moment,
\* a row with the id and the username of the claims, and is otherwise
\* rejected Unauthenticated; so the token is rejected for as long as the row
\* is gone, and admitted again once such a row exists again.
C2_AdmittedIffRowPresent ==
    [][\A c \in Calls :
          Arrives(c) /\ calls'[c].method \in ProtectedMethods /\ PresentsValidToken(c)
              => IF RowPresent(Presented(c).token.claims)
                 THEN calls'[c].entered
                 ELSE RejectedUnauthenticated(calls'[c])]_vars

\* C2 as claimed: the same, and a token whose row was ever deleted is
\* rejected on every later call.
C2_RejectedEverAfterDeletion ==
    [][\A c \in Calls :
          Arrives(c) /\ calls'[c].method \in ProtectedMethods /\ PresentsValidToken(c)
              => LET claims == Presented(c).token.claims
                 IN  /\ calls'[c].entered <=> RowPresent(claims)
                     /\ <<claims.UserID, claims.Username>> \in revoked
                            => RejectedUnauthenticated(calls'[c])]_vars

\* a call admitted with alice's token, and a call with the same token
\* rejected after the row was dropped
C2_Witness ==
    \E c, d \in Calls :
        /\ calls[c].md = BearerAuth(AliceToken) /\ calls[d].md = BearerAuth(AliceToken)
        /\ calls[c].method \in ProtectedMethods /\ calls[d].method \in ProtectedMethods
        /\ calls[c].entered /\ c \in calls[d].prior
        /\ RejectedUnauthenticated(calls[d])
        /\ calls[d].err = "user validation failed: user not found in database"
        /\ <<1, "alice">> \in revoked

\* C3: two AddBook calls for one non-empty id that was absent, overlapping in
\* time, end as one "Book added successfully" and one "Book already exists",
\* both without error, and the stored row is the successful call's.
C3_OneAddedOneDuplicate ==
    \A c, d \in Calls :
        /\ c # d /\ Done(c) /\ Done(d) /\ SameBook(c, d) /\ Concurrent(c, d)
        /\ \A e \in Calls \ {c, d} : ~(Arrived(e) /\ SameBook(c, e))
        => \/ Added(c) /\ Duplicate(d) /\ Stored(c)
           \/ Added(d) /\ Duplicate(c) /\ Stored(d)

\* C4: the token of a successful Register validates, and its claims are the
\* username registered and the id of that username's row.
C4_RegisterTokenValidates ==
    \A c \in Calls :
        Done(c) /\ calls[c].method = "Register"
                /\ Message(c) = "User registered successfully"
            => LET v == ValidateJWT(calls[c].resp.Token, now)
               IN  /\ v.ok
                   /\ v.claims.Username = calls[c].req.username
                   /\ \A u \in users : u.username = v.claims.Username => u.id = v.claims.UserID

\* C5: a call, unary or streamed, that an interceptor ended without invoking
\* the method ended with status Unauthenticated.
C5_InterceptorFailsUnauthenticated ==
    \A c \in Calls : Done(c) /\ ~HandlerInvoked(c) => calls[c].code = Unauthenticated

\* a unary call refused for its missing metadata and a stream refused by
\* the lookup, or the reverse
C5_Witness ==
    \E c, d \in Calls :
        /\ Done(c) /\ ~HandlerInvoked(c) /\ Done(d) /\ ~HandlerInvoked(d)
        /\ (calls[c].method = "BatchAddBooks") # (calls[d].method = "BatchAddBooks")
        /\ calls[c].err = "authentication failed: no metadata found"
        /\ calls[d].err = "user validation failed: user not found in database"

\* C6: a Register or Login call enters its method with the incoming context,
\* whatever its metadata, and no lookup is made for it; any other unary call
\* enters its method exactly when extraction, validation and the lookup all
\* succeed, after one lookup.
C6_OnlyRegisterAndLoginSkip ==
    [][\A c \in Calls :
          Arrives(c) /\ calls'[c].method \in UnaryMethods
              => IF calls'[c].method \in {"Register", "Login"}
                 THEN calls'[c].entered /\ calls'[c].ctx = NoIdentity /\ calls'[c].reads = 0
                 ELSE /\ calls'[c].entered
                          <=> PresentsValidToken(c) /\ RowPresent(Presented(c).token.claims)
                      /\ calls'[c].entered => calls'[c].reads = 1
                      /\ ~calls'[c].entered => RejectedUnauthenticated(calls'[c])]_vars

\* Register without metadata and Login with a malformed token, both in
\* their methods, beside nothing else
C6_Witness ==
    \E c, d \in Calls :
        /\ calls[c].method = "Register" /\ calls[c].md = NoMetadata /\ calls[c].entered
        /\ calls[d].method = "Login" /\ calls[d].md = BearerAuth(MalformedToken)
        /\ calls[d].entered /\ calls[d].reads = 0 /\ calls[d].ctx = NoIdentity

\* C7: a protected call whose method was invoked carries, in its context,
\* the user id and the username of the claims of the token in its own
\* metadata.
C7_ContextIsOwnIdentity ==
    \A c \in Calls :
        HandlerInvoked(c) /\ calls[c].method \in ProtectedMethods
            => LET claims == extractTokenFromMetadata(calls[c].md).token.claims
               IN  calls[c].ctx = Identity(claims.UserID, claims.Username)

\* a unary call of alice and a stream of bob, both in their methods at once
C7_Witness ==
    \E c, d \in Calls :
        /\ calls[c].pc \notin {"idle", "done"} /\ calls[d].pc \notin {"idle", "done"}
        /\ calls[c].method = "AddBook" /\ calls[d].method = "BatchAddBooks"
        /\ calls[c].ctx = Identity(1, "alice") /\ calls[d].ctx = Identity(2, "bob")

\* C8: a stream whose method was invoked had its one lookup made before,
\* never ends Unauthenticated, and every book it received has its response,
\* whether or not the checks would still pass when the book arrived.
C8_StreamCheckedOnce ==
    \A c \in Calls :
        HandlerInvoked(c) /\ calls[c].method = "BatchAddBooks"
            => /\ calls[c].reads = 1
               /\ calls[c].code # Unauthenticated
               /\ Len(calls[c].rechecks)
                      = Len(calls[c].responses) + (IF calls[c].pc = "insert" THEN 1 ELSE 0)
               /\ calls[c].code = OK => calls[c].resp.Responses = calls[c].responses

\* a stream that added a book received when its token had expired or its
\* user's row was gone
C8_Witness ==
    \E c \in Calls :
        /\ HandlerInvoked(c) /\ calls[c].method = "BatchAddBooks"
        /\ \E k \in 1..Len(calls[c].responses) :
              /\ ~calls[c].rechecks[k]
              /\ calls[c].responses[k].Message = "Book added successfully"

\* C9: AddBook returns without error in every case: "Book ID is required"
\* for an empty id, "Book already exists" for an id that is present, and
\* otherwise the row is inserted and the call reports success.
C9_ThreeOutcomesNoError ==
    \A c \in Calls :
        Done(c) /\ calls[c].method = "AddBook"
            => /\ calls[c].code = OK
               /\ IF calls[c].req.id = "" THEN Message(c) = "Book ID is required"
                  ELSE \/ Message(c) = "Book already exists"
                       \/ Message(c) = "Book added successfully"
                            /\ calls[c].req.id \in DOMAIN books

\* C10: of two AddBook calls for one id made one after the other, the first
\* (the id being new) reports success, the second "Book already exists", and
\* the row stored after both is the first call's.
C10_SecondAddIsDuplicate ==
    \A c, d \in Calls :
        Done(c) /\ Done(d) /\ SameBook(c, d) /\ c \in calls[d].prior
            => /\ (\A e \in Calls \ {c} : Arrived(e) /\ SameBook(c, e) => c \in calls[e].prior)
                      => Added(c)
               /\ Added(c) => Duplicate(d) /\ Stored(c)

\* the second call asked for another title and author
C10_Witness ==
    \E c, d \in Calls :
        /\ Done(c) /\ Done(d) /\ SameBook(c, d) /\ c \in calls[d].prior
        /\ Added(c) /\ Duplicate(d)
        /\ calls[c].req.title # calls[d].req.title
        /\ calls[c].req.author # calls[d].req.author

\* some field of the call changes in this step
Steps(c) == calls'[c] # calls[c]
\* the call returns in this step
Returns(c) == calls[c].pc \notin {"idle", "done"} /\ calls'[c].pc = "done"
Replies(c, message) ==
    calls'[c].pc = "done" /\ calls'[c].code = OK /\ calls'[c].resp.Message = message
Without(rows, id) == [i \in DOMAIN rows \ {id} |-> rows[i]]
\* a call other than c and d that adds books has arrived
OtherAdder(c, d) ==
    \E e \in Calls \ {c, d} : calls[e].method \in {"AddBook", "BatchAddBooks"}

\* C11: an UpdateBook with an empty id returns "Book ID is required" and one
\* with an absent id "Book not found", both leaving the store as it was; one
\* with a present id gives that row the request's title and author and leaves
\* every other row, and the set of ids, as they were.
C11_UpdateReplacesInPlace ==
    [][\A c \in Calls :
          calls[c].method = "UpdateBook" /\ Returns(c)
              => LET book == calls[c].req
                 IN  IF book.id = ""
                     THEN Replies(c, "Book ID is required") /\ books' = books
                     ELSE IF book.id \notin DOMAIN books
                     THEN Replies(c, "Book not found") /\ books' = books
                     ELSE /\ Replies(c, "Book updated successfully")
                          /\ calls'[c].resp.Id = book.id
                          /\ books' = [books EXCEPT ![book.id] = BookRow(book.title, book.author)]]_vars

\* b1 was updated to another title and author beside b2, which was not
C11_Witness ==
    \E c \in Calls :
        /\ Done(c) /\ calls[c].method = "UpdateBook"
        /\ calls[c].req = Book("b1", "t2", "a2")
        /\ Message(c) = "Book updated successfully"
        /\ DOMAIN books = {"b1", "b2"}
        /\ books["b1"] = BookRow("t2", "a2") /\ books["b2"] = BookRow("t1", "a1")

\* a DeleteBook that followed a successful one for the same id, no call
\* having added books, reported "Book not found"
SecondDeleteNotFound ==
    \A c, d \in Calls :
        /\ calls[c].method = "DeleteBook" /\ calls[d].method = "DeleteBook"
        /\ Done(c) /\ Done(d) /\ c \in calls[d].prior
        /\ calls[c].req.id = calls[d].req.id
        /\ Message(c) = "Book deleted successfully"
        /\ ~OtherAdder(c, d)
        => calls[d].code = OK /\ Message(d) = "Book not found"

\* C12: a DeleteBook with an empty id returns "Book ID is required" and one
\* with an absent id "Book not found", both leaving the store as it was; one
\* with a present id removes that row and no other; a second DeleteBook of
\* the id then returns "Book not found".
C12_DeleteRemovesOne ==
    [][/\ \A c \in Calls :
             calls[c].method = "DeleteBook" /\ Returns(c)
                 => LET id == calls[c].req.id
                    IN  IF id = ""
                        THEN Replies(c, "Book ID is required") /\ books' = books
                        ELSE IF id \notin DOMAIN books
                        THEN Replies(c, "Book not found") /\ books' = books
                        ELSE /\ Replies(c, "Book deleted successfully")
                             /\ books' = Without(books, id)
       /\ SecondDeleteNotFound']_vars

\* b1 deleted and then not found, with b2 still there
C12_Witness ==
    \E c, d \in Calls :
        /\ calls[c].method = "DeleteBook" /\ calls[d].method = "DeleteBook"
        /\ calls[c].req.id = "b1" /\ calls[d].req.id = "b1"
        /\ Done(c) /\ Done(d) /\ c \in calls[d].prior
        /\ Message(c) = "Book deleted successfully" /\ Message(d) = "Book not found"
        /\ DOMAIN books = {"b2"}

\* the step of call c is one of the four writes, and reports its success
WritesAsReported(c) ==
    LET req == calls[c].req
        item == calls[c].item
    IN  \/ /\ calls[c].method = "AddBook" /\ Replies(c, "Book added successfully")
           /\ req.id \notin DOMAIN books /\ books' = InsertBook(books, req)
        \/ /\ calls[c].method = "BatchAddBooks" /\ calls[c].pc = "insert"
           /\ calls'[c].responses
                  = Append(calls[c].responses, BookResponse(item.id, "Book added successfully"))
           /\ item.id \notin DOMAIN books /\ books' = InsertBook(books, item)
        \/ /\ calls[c].method = "UpdateBook" /\ Replies(c, "Book updated successfully")
           /\ req.id \in DOMAIN books
           /\ books' = [books EXCEPT ![req.id] = BookRow(req.title, req.author)]
        \/ /\ calls[c].method = "DeleteBook" /\ Replies(c, "Book deleted successfully")
           /\ req.id \in DOMAIN books /\ books' = Without(books, req.id)

\* C13: every step that changes the books store is the step of an AddBook or
\* of a batch entry that adds one absent id and reports success, of an
\* UpdateBook that replaces the content of one present id and reports
\* success, or of a DeleteBook that removes one present id and reports
\* success; so Register, Login, ListBooks and every operation that reports
\* a failure leave the store as it was.
C13_StoreChangesOnlyBySuccess ==
    [][books' # books => \E c \in Calls : Steps(c) /\ WritesAsReported(c)]_vars

\* after a delete of b1, an update of b1 and an add of "" reported failures
\* and a store that had b1 and b2 holds b2 alone
C13_Witness ==
    \E c, d \in Calls :
        /\ calls[c].method = "DeleteBook" /\ calls[c].req.id = "b1"
        /\ Message(c) = "Book deleted successfully"
        /\ calls[d].method = "UpdateBook" /\ calls[d].req.id = "b1"
        /\ Done(d) /\ Message(d) = "Book not found"
        /\ DOMAIN books = {"b2"} /\ books["b2"] = BookRow("t1", "a1")

\* C14: no step of an UpdateBook call changes which ids are present, and an
\* UpdateBook that reports success wrote to a row that was there in the
\* state the write was made in, whatever DeleteBook calls run beside it.
C14_UpdateNeverResurrects ==
    [][\A c \in Calls :
          calls[c].method = "UpdateBook" /\ Steps(c)
              => /\ DOMAIN books' = DOMAIN books
                 /\ calls'[c].resp.Message = "Book updated successfully"
                        => /\ calls[c].req.id \in DOMAIN books
                           /\ books'[calls[c].req.id]
                                  = BookRow(calls[c].req.title, calls[c].req.author)]_vars

\* an UpdateBook and a DeleteBook of b1 ran side by side; the delete came
\* first at the store, the update found nothing, and b1 is absent
C14_Witness ==
    \E u, d \in Calls :
        /\ calls[u].method = "UpdateBook" /\ calls[d].method = "DeleteBook"
        /\ calls[u].req.id = "b1" /\ calls[d].req.id = "b1"
        /\ Done(u) /\ Done(d) /\ Concurrent(u, d)
        /\ Message(d) = "Book deleted successfully" /\ Message(u) = "Book not found"
        /\ "b1" \notin DOMAIN books

\* all the books of the store in the order of their ids
AllBooks(rows) == PageOf(rows, Len(SortedIds), 0)
\* the books at the 0-based positions k of that order with
\* (page-1)*pageSize <= k < page*pageSize, for page and pageSize at least 1
PositionsOf(rows, page, pageSize) ==
    LET all == AllBooks(rows)
        Within(k) == (k - 1) \div pageSize = page - 1
        ks == {k \in 1..Len(all) : Within(k)}
    IN  IF ks = {} THEN << >>
        ELSE LET first == CHOOSE k \in ks : \A j \in ks : k <= j
             IN  [j \in 1..Cardinality(ks) |-> all[first + j - 1]]
NormalPage(req) == IF req.page < 1 THEN 1 ELSE req.page
NormalPageSize(req) == IF req.pageSize < 1 THEN DefaultPageSize ELSE req.pageSize
Listed(c) == Done(c) /\ calls[c].method = "ListBooks"
BooksOf(c) == calls[c].resp.Books
Elements(seq) == {seq[k] : k \in 1..Len(seq)}

\* C15: on a store that does not change, every ListBooks call returns the
\* books at positions (page-1)*pageSize up to page*pageSize of the id order,
\* with the size of the whole store as totalCount, and equal calls return
\* equal results.
C15_PageIsThePositions ==
    /\ \A c \in Calls :
          Listed(c)
              => /\ calls[c].code = OK
                 /\ BooksOf(c) = PositionsOf(books, NormalPage(calls[c].req),
                                             NormalPageSize(calls[c].req))
                 /\ calls[c].resp.TotalCount = Cardinality(DOMAIN books)
    /\ \A c, d \in Calls :
          Listed(c) /\ Listed(d) /\ calls[c].req = calls[d].req
              => calls[c].resp = calls[d].resp /\ calls[c].code = calls[d].code

\* C16: two ListBooks calls on the same store whose page and pageSize are
\* equal once each page below 1 is read as 1 and each pageSize below 1 as 10
\* end the same way, with the same response.
C16_NormalizedRequestsAgree ==
    \A c, d \in Calls :
        /\ Listed(c) /\ Listed(d)
        /\ NormalPage(calls[c].req) = NormalPage(calls[d].req)
        /\ NormalPageSize(calls[c].req) = NormalPageSize(calls[d].req)
        => /\ calls[c].resp = calls[d].resp
           /\ calls[c].code = calls[d].code

\* page -1 with pageSize 0 and page 1 with pageSize 10 both returned the
\* first ten of twelve books
C16_Witness ==
    \E c, d \in Calls :
        /\ Listed(c) /\ Listed(d)
        /\ calls[c].req = [page |-> -1, pageSize |-> 0]
        /\ calls[d].req = [page |-> 1, pageSize |-> 10]
        /\ calls[c].code = OK /\ calls[d].code = OK
        /\ Len(BooksOf(c)) = 10 /\ BooksOf(d) = BooksOf(c)
        /\ calls[c].resp.TotalCount = 12

FivePerPage(c, page) ==
    Listed(c) /\ calls[c].req = [page |-> page, pageSize |-> 5] /\ Cardinality(DOMAIN books) = 12

\* C17 (as amended): over a store of 12 books, pages 1 and 2 of 5 are
\* disjoint and are, in this order, the first 10 books of the id order; page
\* 3 holds the 2 that remain; every one of these calls reports totalCount 12.
C17_TwoPagesAreFirstTen ==
    /\ \A c \in Calls, p \in 1..3 :
          FivePerPage(c, p) => calls[c].code = OK /\ calls[c].resp.TotalCount = 12
    /\ \A c, d \in Calls :
          FivePerPage(c, 1) /\ FivePerPage(d, 2)
              => /\ Elements(BooksOf(c)) \cap Elements(BooksOf(d)) = {}
                 /\ BooksOf(c) \o BooksOf(d) = SubSeq(AllBooks(books), 1, 10)
    /\ \A c \in Calls :
          FivePerPage(c, 3) => BooksOf(c) = SubSeq(AllBooks(books), 11, 12)

\* C17 as claimed: pages 1 and 2 of 5 over 12 books are disjoint, report
\* totalCount 12, and together hold the whole store.
C17_TwoPagesAreWholeStore ==
    \A c, d \in Calls :
        FivePerPage(c, 1) /\ FivePerPage(d, 2)
            => /\ Elements(BooksOf(c)) \cap Elements(BooksOf(d)) = {}
               /\ calls[c].resp.TotalCount = 12 /\ calls[d].resp.TotalCount = 12
               /\ BooksOf(c) \o BooksOf(d) = AllBooks(books)

\* page 1 and then page 2 of 5 over the 12 books, five books each
C17_Witness ==
    \E c, d \in Calls :
        /\ FivePerPage(c, 1) /\ FivePerPage(d, 2) /\ c \in calls[d].prior
        /\ Len(BooksOf(c)) = 5 /\ Len(BooksOf(d)) = 5
        /\ BooksOf(c)[1].id = "b1" /\ BooksOf(d)[5].id = "c1"

Streamed(c) == calls[c].method = "BatchAddBooks" /\ HandlerInvoked(c)
\* the results so far are those of the items received so far, in their
\* order, the item being inserted having none yet
OneResultPerItem(c) ==
    /\ Len(calls[c].responses)
           = Len(calls[c].received) - (IF calls[c].pc = "insert" THEN 1 ELSE 0)
    /\ \A k \in 1..Len(calls[c].responses) :
           calls[c].responses[k].Id = calls[c].received[k].id
    /\ calls[c].pc = "insert" => calls[c].item = calls[c].received[Len(calls[c].received)]

\* C18: a BatchAddBooks stream has sent nothing before Recv returned io.EOF;
\* when it has, it sends one BatchResponse, which holds one result for every
\* item received, in the order of receipt, the i-th with the i-th item's id.
C18_OneOrderedResponseAtEOF ==
    \A c \in Calls :
        Streamed(c)
            => /\ OneResultPerItem(c)
               /\ calls[c].recv # "EOF" => calls[c].resp = NoResponse
               /\ calls[c].recv = "EOF"
                      => /\ Done(c) /\ calls[c].code = OK
                         /\ calls[c].resp = BatchResponse(calls[c].responses)
                         /\ Len(calls[c].resp.Responses) = Len(calls[c].received)

\* b2 and then b1 were sent and the response lists b2 and then b1
C18_Witness ==
    \E c \in Calls :
        /\ Streamed(c) /\ Done(c) /\ calls[c].recv = "EOF"
        /\ Len(calls[c].received) = 2
        /\ calls[c].received[1].id = "b2" /\ calls[c].received[2].id = "b1"
        /\ calls[c].resp.Responses[1] = BookResponse("b2", "Book added successfully")
        /\ calls[c].resp.Responses[2].Id = "b1"

\* the stream's step receives a book or inserts one
HandlesItem(c) ==
    /\ calls[c].method = "BatchAddBooks"
    /\ \/ Len(calls'[c].received) > Len(calls[c].received)
       \/ calls[c].pc = "insert" /\ Steps(c)

\* C19: no step in which a stream handles an item ends the stream, whatever
\* the item's result and whatever the results before it: the item is
\* checked, and if its id is not empty and not in the store it is inserted
\* and reported added; and a stream whose Recv returns io.EOF ends with a
\* response and no error even when some of its results are failures.
C19_ItemFailureDoesNotEndStream ==
    [][\A c \in Calls :
          /\ HandlesItem(c)
                => /\ calls'[c].pc \in {"handler", "insert"}
                   /\ calls'[c].code = ""
                   /\ calls[c].pc = "handler"
                          => LET book == calls'[c].received[Len(calls'[c].received)]
                             IN  IF book.id # "" /\ tables /\ book.id \notin DOMAIN books
                                 THEN calls'[c].pc = "insert" /\ calls'[c].item = book
                                 ELSE /\ calls'[c].pc = "handler"
                                      /\ Len(calls'[c].responses) = Len(calls[c].responses) + 1
                   /\ calls[c].pc = "insert"
                          => /\ calls'[c].pc = "handler"
                             /\ Len(calls'[c].responses) = Len(calls[c].responses) + 1
                             /\ tables /\ calls[c].item.id \notin DOMAIN books
                                    => /\ books' = InsertBook(books, calls[c].item)
                                       /\ calls'[c].responses[Len(calls'[c].responses)].Message
                                              = "Book added successfully"
          /\ calls[c].method = "BatchAddBooks" /\ calls'[c].recv = "EOF"
                => calls'[c].code = OK /\ calls'[c].resp = BatchResponse(calls[c].responses)]_vars

\* the existence check of the first book failed at the store, the second
\* book was added, and the stream ended with both results
C19_Witness ==
    \E c \in Calls :
        /\ Streamed(c) /\ Done(c) /\ calls[c].code = OK
        /\ Len(calls[c].resp.Responses) = 2
        /\ calls[c].resp.Responses[1].Message = "Database error"
        /\ calls[c].resp.Responses[2].Message = "Book added successfully"

\* C20: a stream whose Recv failed with an error other than io.EOF has
\* ended with status Internal and sent no BatchResponse, however many items
\* it had handled.
C20_ReadFailureIsInternal ==
    \A c \in Calls :
        calls[c].recv = "error"
            => /\ Done(c) /\ calls[c].code = Internal
               /\ calls[c].resp = NoResponse

\* the read failed after one book was added and one was refused
C20_Witness ==
    \E c \in Calls :
        /\ Streamed(c) /\ calls[c].recv = "error"
        /\ Len(calls[c].responses) = 2
        /\ calls[c].responses[1].Message = "Book added successfully"
        /\ calls[c].responses[2].Message = "Book already exists"

\* no other call was in flight while this one was: every other call had
\* returned before it arrived or has not arrived
Alone(c) == \A d \in Calls \ {c} : calls[d].pc = "idle" \/ d \in calls[c].prior
\* the id of the i-th item was in the store when the stream began or is the
\* id of an earlier item of the stream
DuplicateItem(c, i) ==
    \/ calls[c].received[i].id \in DOMAIN calls[c].before
    \/ \E j \in 1..(i - 1) : calls[c].received[j].id = calls[c].received[i].id
ResultsWith(c, message) ==
    {i \in 1..Len(calls[c].resp.Responses) : calls[c].resp.Responses[i].Message = message}

\* C21: a BatchAddBooks stream that ran alone, sent n items with non-empty
\* ids and ended at io.EOF has n results; the k items whose id was in the
\* store before the stream or earlier in the stream are the ones answered
\* "Book already exists" and the other n-k are answered "Book added
\* successfully"; the store holds the rows it held before, unchanged, and
\* one row for each of the n-k new items.
C21_BatchCountsDuplicates ==
    \A c \in Calls :
        (/\ Streamed(c) /\ Done(c) /\ calls[c].recv = "EOF" /\ Alone(c)
         /\ \A i \in 1..Len(calls[c].received) : calls[c].received[i].id # "")
            => LET items == calls[c].received
                   n == Len(items)
                   dups == {i \in 1..n : DuplicateItem(c, i)}
                   k == Cardinality(dups)
                   before == calls[c].before
               IN  /\ Len(calls[c].resp.Responses) = n
                   /\ ResultsWith(c, "Book already exists") = dups
                   /\ Cardinality(ResultsWith(c, "Book already exists")) = k
                   /\ Cardinality(ResultsWith(c, "Book added successfully")) = n - k
                   /\ \A id \in DOMAIN before : id \in DOMAIN books /\ books[id] = before[id]
                   /\ DOMAIN books = DOMAIN before \cup {items[i].id : i \in (1..n) \ dups}
                   /\ Cardinality(DOMAIN books) = Cardinality(DOMAIN before) + n - k
                   /\ \A i \in (1..n) \ dups :
                          books[items[i].id] = BookRow(items[i].title, items[i].author)

\* on a store that held b1, a stream sent b2 and then b1: two results, b2
\* added and b1 refused, and the store holds the old b1 and the new b2
C21_Witness ==
    \E c \in Calls :
        /\ Streamed(c) /\ Done(c) /\ calls[c].recv = "EOF" /\ Alone(c)
        /\ DOMAIN calls[c].before = {"b1"}
        /\ Len(calls[c].received) = 2
        /\ calls[c].resp.Responses[1] = BookResponse("b2", "Book added successfully")
        /\ calls[c].resp.Responses[2] = BookResponse("b1", "Book already exists")
        /\ books["b1"] = BookRow("t1", "a1") /\ books["b2"] = BookRow("t2", "a2")

\* C22: while no table is dropped, an AddBook call that ran alone leaves the
\* table and returns the response of AddBookAlone, and a BatchAddBooks
\* stream that ran alone and ended at io.EOF leaves the table and returns
\* the (id, message) results, in order, that AddBook(b1), ..., AddBook(bn)
\* called in sequence leave and return from the table the stream began on.
C22_BatchIsSequenceOfAddBook ==
    [][\A c \in Calls :
          /\ (calls[c].method = "AddBook" /\ Returns(c) /\ Alone(c))
                => LET one == AddBookAlone(books, calls[c].req)
                   IN  /\ books' = one.rows
                       /\ calls'[c].resp = one.resp
                       /\ calls'[c].code = OK
          /\ (calls[c].method = "BatchAddBooks" /\ Returns(c) /\ Alone(c)
                 /\ calls'[c].recv = "EOF")
                => LET all == AddBooksInSequence(calls[c].before, calls[c].received)
                   IN  /\ books' = all.rows
                       /\ calls'[c].resp = BatchResponse(all.responses)
                       /\ calls'[c].code = OK]_vars

\* AddBook(b1) ran alone and added b1; then a stream of b1 and b2 ran alone:
\* b1 refused, b2 added, as AddBook(b1) and AddBook(b2) would have answered
C22_Witness ==
    \E c, d \in Calls :
        /\ calls[d].method = "AddBook" /\ Done(d) /\ calls[d].prior = {}
        /\ calls[d].resp = BookResponse("b1", "Book added successfully")
        /\ Streamed(c) /\ Done(c) /\ calls[c].recv = "EOF" /\ calls[c].prior = {d}
        /\ calls[c].resp.Responses = <<BookResponse("b1", "Book already exists"),
                                       BookResponse("b2", "Book added successfully")>>
        /\ DOMAIN books = {"b1", "b2"}

Verifies(creds) ==
    \E u \in users : u.username = creds.username
                        /\ CompareHashAndPassword(u.password_hash, creds.password)

\* C24: a Login that does not find the username and a Login that finds it
\* with a digest the password does not match return the same thing: the
\* message "Invalid username or password", an empty token and a nil error;
\* what a failed Login returns does not depend on whether the username is
\* registered.
C24_LoginFailuresAlike ==
    [][\A c \in Calls :
          (At(c, "Login", "handler") /\ Steps(c))
             => IF Verifies(calls[c].req)
                THEN calls'[c].resp.Message = "Login successful"
                ELSE calls'[c] = Return(calls[c],
                         AuthResponse(EmptyToken, "Invalid username or password"), OK, "")]_vars

\* alice is registered and bob is not: Login(bob, secret2) and
\* Login(alice, secret2) got the same response
C24_Witness ==
    \E c, d \in Calls :
        /\ calls[c].method = "Login" /\ calls[d].method = "Login"
        /\ Done(c) /\ Done(d)
        /\ calls[c].req = User("bob", "secret2") /\ calls[d].req = User("alice", "secret2")
        /\ users = {AliceRow}
        /\ calls[c].resp = calls[d].resp /\ calls[c].code = calls[d].code
        /\ calls[c].err = calls[d].err
        /\ calls[c].resp.Message = "Invalid username or password"

\* the call returned the success message of its method
Registered(c) ==
    calls[c].method = "Register" /\ Done(c)
        /\ calls[c].resp.Message = "User registered successfully"
LoggedIn(c) ==
    calls[c].method = "Login" /\ Done(c) /\ calls[c].resp.Message = "Login successful"

\* C25: when a Register of a user succeeded with token A and a later Login
\* of that user succeeded with token B, B is not A and ValidateJWT accepts
\* A and accepts B.
C25_LoginMintsFreshToken ==
    \A c, d \in Calls :
        (/\ Registered(c) /\ LoggedIn(d) /\ c \in calls[d].prior
         /\ calls[c].req.username = calls[d].req.username)
            => /\ calls[d].resp.Token # calls[c].resp.Token
               /\ ValidateJWT(calls[c].resp.Token, now).ok
               /\ ValidateJWT(calls[d].resp.Token, now).ok

\* ValidateJWT is called in this step, and what it returns
Validates(c) == Arrives(c) /\ calls'[c].method = "ValidateJWT"
ValidatedToken(c) == calls'[c].req
Accepted(c) == calls'[c].err = ""
NoClaimsReturned(c) == calls'[c].err # "" /\ calls'[c].resp.Claims = NoClaims
HMACSigned(tok) == tok.form = "jws" /\ tok.alg \in HMACAlgs /\ tok.key = jwtSecret
\* GenerateJWT returned the token to call d
MintedBy(d, tok) == calls[d].method = "GenerateJWT" /\ Done(d) /\ calls[d].resp.Token = tok

\* C26: ValidateJWT called with a token whose signature was made with a key
\* other than the server's, or whose header names a method outside the HMAC
\* family, returns an error and nil claims, whatever the claims in the token
\* (claims that would pass, claims that expired) and whatever the time.
C26_ForeignTokensRejected ==
    [][\A c \in Calls :
          (/\ Validates(c) /\ ValidatedToken(c).form = "jws"
           /\ \/ ValidatedToken(c).key # jwtSecret
              \/ ValidatedToken(c).alg \notin HMACAlgs)
             => NoClaimsReturned(c)]_vars

\* the token of generateTokenWithWrongSecret and an RS256 token carrying the
\* server's key were both refused
C26_Witness ==
    \E c, d \in Calls :
        /\ calls[c].method = "ValidateJWT" /\ calls[c].req = WrongSecretToken
        /\ calls[c].err = "signature is invalid" /\ calls[c].resp.Claims = NoClaims
        /\ calls[d].method = "ValidateJWT"
        /\ calls[d].req = Jws("RS256", jwtSecret, AliceToken.claims)
        /\ calls[d].err = "unexpected signing method" /\ calls[d].resp.Claims = NoClaims

\* C27: ValidateJWT called with a token signed by the server whose exp is
\* not after the clock, with the empty string or with a string that is not
\* a token returns an error; and whenever it returns an error the claims it
\* returns are nil.
C27_ExpiredAndMalformedFail ==
    [][\A c \in Calls :
          Validates(c)
             => /\ (HMACSigned(ValidatedToken(c))
                      /\ ValidatedToken(c).claims.ExpiresAt <= now) => ~Accepted(c)
                /\ ValidatedToken(c).form # "jws" => ~Accepted(c)
                /\ ~Accepted(c) => NoClaimsReturned(c)]_vars

\* a token that expires at 1 was refused at 1, and the empty string was
\* refused
C27_Witness ==
    \E c, d \in Calls :
        /\ calls[c].method = "ValidateJWT" /\ calls[c].req = AliceOldToken
        /\ calls[c].err = "token is expired" /\ calls[c].resp.Claims = NoClaims
        /\ now = AliceOldToken.claims.ExpiresAt
        /\ calls[d].method = "ValidateJWT" /\ calls[d].req = EmptyToken
        /\ calls[d].err = "token is malformed" /\ calls[d].resp.Claims = NoClaims

\* C28: ValidateJWT called before exp with a token that GenerateJWT returned
\* for (id, username) returns no error and claims with UserID = id,
\* Username = username, Issuer = "library-service" and ExpiresAt after now.
C28_MintedTokenValidates ==
    [][\A c, d \in Calls :
          (/\ Validates(c) /\ MintedBy(d, ValidatedToken(c))
           /\ now < ValidatedToken(c).claims.ExpiresAt)
             => /\ Accepted(c)
                /\ calls'[c].resp.Claims.UserID = calls[d].req.userID
                /\ calls'[c].resp.Claims.Username = calls[d].req.username
                /\ calls'[c].resp.Claims.Issuer = "library-service"
                /\ calls'[c].resp.Claims.ExpiresAt > now]_vars

\* GenerateJWT(2, "bob") returned a token and ValidateJWT returned its
\* claims: 2, bob
C28_Witness ==
    \E c, d \in Calls :
        /\ calls[d].method = "GenerateJWT" /\ Done(d)
        /\ calls[d].req = [userID |-> 2, username |-> "bob"]
        /\ calls[c].method = "ValidateJWT" /\ calls[c].req = calls[d].resp.Token
        /\ calls[c].err = ""
        /\ calls[c].resp.Claims.UserID = 2 /\ calls[c].resp.Claims.Username = "bob"

\* C29: GenerateJWT called at t returns a token whose exp is t + 24 hours
\* and is later than its iat; and ValidateJWT called with that token at any
\* time from then on accepts it exactly when the clock is before exp.
C29_ExpiresAfterTokenTTL ==
    [][\A c \in Calls :
          /\ (Arrives(c) /\ calls'[c].method = "GenerateJWT")
                => calls'[c].readings = <<now>>
          /\ (calls[c].method = "GenerateJWT" /\ Returns(c))
                => LET claims == calls'[c].resp.Token.claims
                   IN  /\ claims.ExpiresAt = calls[c].readings[1] + TokenTTL
                       /\ claims.ExpiresAt > claims.IssuedAt
          /\ \A d \in Calls :
                (Validates(c) /\ MintedBy(d, ValidatedToken(c)))
                   => (Accepted(c) <=> now < ValidatedToken(c).claims.ExpiresAt)]_vars

\* GenerateJWT was called at 0 and read the clock for iat at 1; the token
\* expires at 24 and was refused at 24
C29_Witness ==
    \E c, d \in Calls :
        /\ calls[d].method = "GenerateJWT" /\ Done(d)
        /\ calls[d].readings[1] = 0
        /\ calls[d].resp.Token.claims.IssuedAt = 1
        /\ calls[d].resp.Token.claims.ExpiresAt = TokenTTL
        /\ calls[c].method = "ValidateJWT" /\ calls[c].req = calls[d].resp.Token
        /\ calls[c].err = "token is expired"
        /\ now = TokenTTL

\* extractTokenFromMetadata is called in this step
Extracts(c) == Arrives(c) /\ calls'[c].method = "extractTokenFromMetadata"

\* C30: extractTokenFromMetadata returns an error when the context has no
\* metadata, when there is no value under "authorization", and when the
\* first value does not begin with the seven characters "Bearer " (the
\* empty value and shorter values among them); otherwise it returns, with
\* no error, what follows those seven characters in the first value.
C30_ExtractsAfterBearerPrefix ==
    [][\A c \in Calls :
          Extracts(c)
             => LET md == calls'[c].md
                IN  IF \/ ~md.ok
                       \/ md.authorization = << >>
                       \/ md.authorization[1].head # <<"B", "e", "a", "r", "e", "r", " ">>
                    THEN calls'[c].err # ""
                    ELSE /\ calls'[c].err = ""
                         /\ calls'[c].resp.Token = md.authorization[1].rest]_vars

\* of two Bearer values the first one's token was returned, and "Bearer"
\* without the space was refused
C30_Witness ==
    \E c, d \in Calls :
        /\ calls[c].method = "extractTokenFromMetadata"
        /\ calls[c].md = TwoValues(BearerAuth(AliceToken), BearerAuth(BobToken))
        /\ calls[c].err = "" /\ calls[c].resp.Token = AliceToken
        /\ calls[d].method = "extractTokenFromMetadata"
        /\ calls[d].md = ShortAuthorization
        /\ calls[d].err = "invalid authorization header format"

\* the step is a statement of the call against a table that does not exist
StoreFails(c) ==
    /\ calls[c].method \in {"Register", "AddBook", "UpdateBook", "DeleteBook", "ListBooks"}
    /\ calls[c].pc \in {"handler", "insert", "count"}
    /\ Steps(c)
    /\ ~tables
    /\ calls[c].method \in {"AddBook", "UpdateBook", "DeleteBook"} => calls[c].req.id # ""

\* C31: a statement of Register, AddBook, UpdateBook, DeleteBook or
\* ListBooks that fails at the store ends the call with status Internal,
\* and leaves the users and the books as they were.
C31_StoreFailureIsInternal ==
    [][\A c \in Calls :
          StoreFails(c)
             => /\ calls'[c].pc = "done"
                /\ calls'[c].code = Internal
                /\ users' = users /\ books' = books]_vars

\* C32: the step in which a call or a stream passes the interceptor changes
\* neither the users nor the books nor the tables; it reads the users at
\* most once, and only when a token was extracted from the metadata and
\* ValidateJWT accepted it; no later step of the call reads them for the
\* interceptor again.
C32_InterceptorReadsOnceWritesNothing ==
    [][\A c \in Calls :
          /\ Arrives(c)
                => /\ users' = users /\ books' = books /\ tables' = tables
                   /\ userSeq' = userSeq
                   /\ calls'[c].reads \in {0, 1}
                   /\ calls'[c].reads = 1
                          => Presented(c).ok /\ ValidateJWT(Presented(c).token, now).ok
          /\ ~Arrives(c) => calls'[c].reads = calls[c].reads]_vars

\* a call with a token signed by another key was refused without a read,
\* and a call with alice's token was admitted after one read
C32_Witness ==
    \E c, d \in Calls :
        /\ calls[c].md = BearerAuth(WrongSecretToken) /\ Done(c)
        /\ calls[c].code = Unauthenticated /\ calls[c].reads = 0
        /\ calls[d].md = BearerAuth(AliceToken) /\ HandlerInvoked(d)
        /\ calls[d].reads = 1

\* the call c of isTokenValid on a stored token with a payload
ChecksToken(c) ==
    /\ calls[c].method = "isTokenValid" /\ Done(c)
    /\ calls[c].req.form = "jws"
\* C33: isTokenValid returns false exactly when the token's exp is at most
\* the time read plus the smaller of 30 and a tenth of exp - iat rounded
\* down, and then no token is stored any more; when it returns true the
\* token is kept and the time read is before exp.
C33_ClientExpiresEarly ==
    \A c \in Calls :
        ChecksToken(c)
           => LET exp == calls[c].req.claims.ExpiresAt
                  iat == calls[c].req.claims.IssuedAt
                  t == calls[c].readings[1]
                  tenth == (exp - iat) \div 10
                  buffer == IF tenth < 30 THEN tenth ELSE 30
              IN  /\ ~calls[c].resp.Valid <=> exp <= t + buffer
                  /\ ~calls[c].resp.Valid => calls[c].resp.Token = NullToken
                  /\ calls[c].resp.Valid
                        => calls[c].resp.Token = calls[c].req /\ t < exp

\* a token of 20 seconds was found expired 2 seconds before its exp and
\* cleared, and a token of a day was found valid 31 seconds before its exp
C33_Witness ==
    \E c, d \in Calls :
        /\ ChecksToken(c) /\ calls[c].req = SessionToken(20)
        /\ calls[c].readings[1] = calls[c].req.claims.ExpiresAt - 2
        /\ ~calls[c].resp.Valid /\ calls[c].resp.Token = NullToken
        /\ ChecksToken(d) /\ calls[d].req = SessionToken(TokenTTL * SecondsPerHour)
        /\ calls[d].readings[1] = calls[d].req.claims.ExpiresAt - 31
        /\ calls[d].resp.Valid

\* the Register calls for username
RegistersOf(username) ==
    {c \in Calls : calls[c].method = "Register" /\ calls[c].req.username = username}
SubjectAbsent(c) ==
    /\ installed /\ HandlerInvoked(c) /\ calls[c].ctx.set
    /\ calls[c].method \in ProtectedMethods
    /\ ~\E u \in users : u.id = calls[c].ctx.user_id /\ u.username = calls[c].ctx.username
\* C35: a step that removes rows from users changes no call, the admitted
\* ones among them; and a step of a handler whose caller has no row any
\* more does not look the caller up: it ends with no Unauthenticated status
\* and keeps the identity the interceptor put into the context.
C35_HandlerRunsForDeletedUser ==
    [][/\ (\E u \in users : u \notin users') => calls' = calls
       /\ \A c \in Calls :
             (SubjectAbsent(c) /\ Steps(c))
                => /\ calls'[c].code # Unauthenticated
                   /\ calls'[c].ctx = calls[c].ctx
                   /\ calls'[c].reads = calls[c].reads]_vars

\* AddBook was admitted for alice, her row was dropped and the tables were
\* created again before the handler's first statement, and the handler has
\* passed its existence query
C35_Witness ==
    \E c \in Calls :
        /\ SubjectAbsent(c) /\ At(c, "AddBook", "insert")
        /\ calls[c].ctx = IdentityContext(AliceToken.claims)
        /\ calls[c].reads = 1
        /\ <<1, "alice">> \in revoked
        /\ tables /\ users = {}

\* c and d are DeleteBook calls for one id, neither of which had returned
\* when the other arrived, and no other call adds books
DeleteTogether(c, d) ==
    /\ c # d
    /\ calls[c].method = "DeleteBook" /\ calls[d].method = "DeleteBook"
    /\ calls[c].req.id = calls[d].req.id /\ calls[c].req.id # ""
    /\ Concurrent(c, d)
    /\ ~OtherAdder(c, d)
\* C36: of two concurrent DeleteBook calls for one id that is present while
\* both are in flight, the one whose DELETE runs first reports "Book
\* deleted successfully"; the other then reports "Book not found", and the
\* id is absent when it has returned.
C36_ConcurrentDeletesOneSucceeds ==
    [][\A c, d \in Calls :
          DeleteTogether(c, d)
             => /\ (/\ calls[c].pc = "handler" /\ calls[d].pc = "handler"
                     /\ calls[c].req.id \in DOMAIN books /\ Returns(c))
                       => /\ Replies(c, "Book deleted successfully")
                          /\ calls[c].req.id \notin DOMAIN books'
                /\ (/\ Done(c) /\ Message(c) = "Book deleted successfully" /\ Returns(d))
                       => /\ Replies(d, "Book not found")
                          /\ calls[d].req.id \notin DOMAIN books']_vars

\* two DeleteBook calls for b1 had both arrived before either ran; one
\* deleted b1, the other did not find it, and b2 is still there
C36_Witness ==
    \E c, d \in Calls :
        /\ DeleteTogether(c, d) /\ Done(c) /\ Done(d)
        /\ calls[c].req.id = "b1"
        /\ Message(c) = "Book deleted successfully" /\ Message(d) = "Book not found"
        /\ DOMAIN books = {"b2"}

\* the streams that have received a book with this id
StreamsWith(id) ==
    {c \in Calls : /\ calls[c].method = "BatchAddBooks"
                   /\ \E i \in DOMAIN calls[c].received : calls[c].received[i].id = id}
\* the AddBook calls for this id that have arrived
AddBooksWith(id) == {c \in Calls : calls[c].method = "AddBook" /\ calls[c].req.id = id}
\* the entries for this id that were answered "Book added successfully":
\* <<c, i>> is the i-th book of stream c, <<c, 0>> the request of AddBook c
AddedEntries(id) ==
    UNION {{<<c, i>> : i \in {j \in DOMAIN calls[c].responses :
                                calls[c].responses[j] = BookResponse(id, "Book added successfully")}} :
              c \in StreamsWith(id)}
        \cup {<<c, 0>> : c \in {d \in AddBooksWith(id) : Added(d)}}
EntryBook(e) == IF e[2] = 0 THEN calls[e[1]].req ELSE calls[e[1]].received[e[2]]
\* every book the stream received has its result, in the order received
Answered(c) ==
    /\ Len(calls[c].responses) = Len(calls[c].received)
    /\ \A i \in DOMAIN calls[c].received : calls[c].responses[i].Id = calls[c].received[i].id
\* C37: for an id that was absent when each stream that submits it began,
\* at most one entry across the streams and the AddBook calls that submit
\* it is answered "Book added successfully"; once every such stream has
\* answered what it received and every such AddBook has returned, exactly
\* one is, and the stored row is that entry's title and author; a stream
\* between two books has a result for every book it received, and a stream
\* ends only by its own Recv, with the results in its response.
C37_ConcurrentAddersOneSucceeds ==
    /\ \A id \in BookIds :
          (/\ StreamsWith(id) # {}
           /\ \A c \in StreamsWith(id) : id \notin DOMAIN calls[c].before)
             => /\ Cardinality(AddedEntries(id)) <= 1
                /\ (/\ \A c \in StreamsWith(id) : calls[c].pc # "insert"
                    /\ \A d \in AddBooksWith(id) : Done(d))
                       => /\ Cardinality(AddedEntries(id)) = 1
                          /\ \A e \in AddedEntries(id) :
                                /\ id \in DOMAIN books
                                /\ books[id] = BookRow(EntryBook(e).title, EntryBook(e).author)
    /\ \A c \in Calls :
          (calls[c].method = "BatchAddBooks" /\ HandlerInvoked(c))
             => /\ calls[c].pc # "insert" => Answered(c)
                /\ Done(c) => calls[c].recv \in {"EOF", "error"}
                /\ (Done(c) /\ calls[c].recv = "EOF")
                       => calls[c].resp = BatchResponse(calls[c].responses)

\* two streams had each received b1, with different contents, before
\* either inserted it: the first was answered "Book added successfully",
\* the second "Failed to add book"; the second went on to add b2 and was
\* closed by its client; the row of b1 is the first stream's
C37_Witness ==
    \E c, d \in Calls :
        /\ calls[c].method = "BatchAddBooks" /\ calls[d].method = "BatchAddBooks"
        /\ Concurrent(c, d)
        /\ calls[c].received = <<Book("b1", "t2", "a2")>>
        /\ calls[c].responses = <<BookResponse("b1", "Book added successfully")>>
        /\ calls[d].received = <<Book("b1", "t1", "a1"), Book("b2", "t1", "a1")>>
        /\ Done(d) /\ calls[d].recv = "EOF"
        /\ calls[d].resp = BatchResponse(<<BookResponse("b1", "Failed to add book"),
                                           BookResponse("b2", "Book added successfully")>>)
        /\ books = InsertBook(InsertBook(NoBooks, Book("b1", "t2", "a2")), Book("b2", "t1", "a1"))

\* the ids stream c inserted
InsertedBy(c) ==
    {calls[c].responses[i].Id :
        i \in {j \in DOMAIN calls[c].responses :
                  calls[c].responses[j].Message = "Book added successfully"}}
\* stream c ended on a failed Recv before call d arrived, and no call
\* deletes books
AbortedBefore(c, d) ==
    /\ calls[c].method = "BatchAddBooks" /\ Done(c) /\ calls[c].recv = "error"
    /\ c \in calls[d].prior
    /\ ~\E e \in Calls : calls[e].method = "DeleteBook"
\* C38: the step in which a stream ends on a failed Recv leaves the books
\* as they were, the stream's own inserts among them, and returns status
\* Internal with no response; an AddBook that arrives later for an id the
\* stream inserted reports "Book already exists", and a ListBooks that
\* arrives later counts the stream's inserts and returns the id when it is
\* the first of the order.
C38_AbortedStreamKeepsInserts ==
    [][\A c \in Calls :
          /\ (calls[c].method = "BatchAddBooks" /\ Returns(c) /\ calls'[c].recv = "error")
                => /\ books' = books
                   /\ (\E e \in Calls : calls[e].method = "DeleteBook")
                         \/ InsertedBy(c) \subseteq DOMAIN books'
                   /\ calls'[c].code = Internal /\ calls'[c].resp = NoResponse
          /\ \A d \in Calls :
                (AbortedBefore(c, d) /\ Returns(d) /\ calls'[d].code = OK)
                   => /\ (calls[d].method = "AddBook" /\ calls[d].req.id \in InsertedBy(c))
                         => Replies(d, "Book already exists")
                      /\ calls[d].method = "ListBooks"
                         => /\ calls'[d].resp.TotalCount >= Cardinality(InsertedBy(c))
                            /\ \A id \in InsertedBy(c) :
                                  InOrder(books)[1] = id
                                     => /\ Len(calls'[d].resp.Books) = 1
                                        /\ calls'[d].resp.Books[1].id = id]_vars

\* a stream inserted b1 and then ended on a failed Recv with no response;
\* a later ListBooks returned b1 and counted it
C38_Witness ==
    \E c, d \in Calls :
        /\ AbortedBefore(c, d) /\ calls[c].resp = NoResponse
        /\ calls[c].responses = <<BookResponse("b1", "Book added successfully")>>
        /\ Listed(d) /\ calls[d].code = OK
        /\ BooksOf(d) = <<Book("b1", "t2", "a2")>>
        /\ calls[d].resp.TotalCount = 1

\* C39: a ListBooks call that returns a response returns at most
\* totalCount books, and its totalCount is the size of the store at an
\* instant of the call, that of its count query, whatever AddBook and
\* DeleteBook calls ran since its page query.
C39_PageWithinTotalCount ==
    [][\A c \in Calls :
          (calls[c].method = "ListBooks" /\ Returns(c) /\ calls'[c].code = OK)
             => /\ calls'[c].resp.TotalCount = Cardinality(DOMAIN books)
                /\ Len(calls'[c].resp.Books) <= calls'[c].resp.TotalCount]_vars

\* C40: for the page and pageSize of every ListBooks call, the offset the
\* page query is given is not negative and is the product of page - 1 and
\* pageSize as normalized (pageSize divides it, with quotient page - 1),
\* and the query is not refused for it.
C40_OffsetNeverWraps ==
    [][\A c \in Calls :
          (At(c, "ListBooks", "handler") /\ Steps(c))
             => LET req == calls[c].req
                    offset == Offset(req.page, req.pageSize)
                IN  /\ offset >= 0
                    /\ offset % NormalPageSize(req) = 0
                    /\ offset \div NormalPageSize(req) = NormalPage(req) - 1
                    /\ calls'[c].pc = "count"]_vars


=============================================================================
